---- MODULE Spec2Model ----
(***************************************************************************)
(* Banking back office (admin portal + customer API) over a document       *)
(* store.  The store holds customer documents and transaction documents;   *)
(* every route handler is one action (or, where interleavings matter, a    *)
(* short sequence of steps of a process).  Money is counted in minor units *)
(* (cents): Dollar minor units make 1.00.                                  *)
(***************************************************************************)
EXTENDS Integers, Sequences, FiniteSets, TLC

VARIABLES
    customers,      \* the Customer collection: _id -> document
    transactions,   \* the Transaction collection, in insertion order
    nextId,         \* the next fresh ObjectId
    now,            \* the wall clock, in days
    tokens,         \* bearer tokens that exist (issued by the server, or forged)
    jwtEnv,         \* whether the JWT_SECRET environment variable is set
    procs,          \* handlers in flight: process -> local state
    req,            \* observation: the request being answered, or which handlers
                    \* ran concurrently (set by the specifications whose claims
                    \* relate the outcome to the requests)
    resp,           \* the response of the handler that ran last
    sites           \* the Site collection, in insertion order

vars == <<customers, transactions, nextId, now, tokens, jwtEnv, procs, req, resp, sites>>
store == <<customers, transactions, nextId>>

----------------------------------------------------------------------------
(* Bounds of the model *)

MaxTx == 2          \* transaction documents created in one behaviour
MaxAmount == 2      \* largest amount of a deposit / peer transfer request
MaxPerturbed == 2   \* fields in which a transfer request differs from a valid one

----------------------------------------------------------------------------
(* Values *)

NoId == 0                       \* "no such document" (null)
Absent == ""                    \* a missing (or empty) string field: falsy
NoText == <<>>                  \* the same for strings kept as character sequences

SystemEmail == "halifax@bank.system"
SystemAccountNumber == <<"H", "A", "L", "I", "F", "A", "X", "0", "0", "1">>

Digits == {"0", "1", "2", "3", "4", "5", "6", "7", "8", "9"}
DigitOf(i) == CASE i = 0 -> "0" [] i = 1 -> "1" [] i = 2 -> "2" [] i = 3 -> "3"
                [] i = 4 -> "4" [] i = 5 -> "5" [] i = 6 -> "6" [] i = 7 -> "7"
                [] i = 8 -> "8" [] OTHER -> "9"

\* The i-th ten-digit account number of the model's number space.
AcctNo(i) == <<"1", "0", "0", "0", "0", "0", "0", "0", "0", DigitOf(i)>>

\* String.prototype.toLowerCase on the e-mail alphabet of the model
\* (the schema's lowercase setter, applied to documents and to query filters).
Lower(e) == CASE e = "A@x" -> "a@x" [] e = "B@x" -> "b@x" [] e = "N@x" -> "n@x"
              [] OTHER -> e

\* bcrypt.hash: a salted hash, kept as a value that only bcrypt.compare opens.
BcryptHash(s) == [bcrypt |-> s]
\* bcrypt.compare(s, stored): false unless `stored` is a bcrypt hash of s.
BcryptCompare(s, stored) == stored = [bcrypt |-> s]

----------------------------------------------------------------------------
(* The store: queries and the unique indexes of the Customer schema *)

MinOf(S) == CHOOSE x \in S : \A y \in S : x <= y

FindById(cs, id) == IF id \in DOMAIN cs THEN id ELSE NoId

FindOneByEmailCaseSensitive(cs, e) ==
    LET hit == {i \in DOMAIN cs : cs[i].email = e}
    IN IF hit = {} THEN NoId ELSE MinOf(hit)

FindOneByEmail(cs, e) ==
    LET hit == {i \in DOMAIN cs : cs[i].email = Lower(e)}
    IN IF hit = {} THEN NoId ELSE MinOf(hit)

FindOneByAccountNumber(cs, a) ==
    LET hit == {i \in DOMAIN cs : cs[i].accountNumber = a}
    IN IF hit = {} THEN NoId ELSE MinOf(hit)

DuplicateKeyEmailOnly(cs, id, doc) ==
    \E i \in DOMAIN cs \ {id} : cs[i].email = doc.email

\* E11000: the document `doc`, stored under `id`, would repeat the e-mail or the
\* account number of another document (unique: true on both paths).
DuplicateKey(cs, id, doc) ==
    \E i \in DOMAIN cs \ {id} :
        \/ cs[i].email = doc.email
        \/ cs[i].accountNumber = doc.accountNumber

\* The collection with `doc` stored under `id`.
Put(cs, id, doc) == [i \in DOMAIN cs \cup {id} |-> IF i = id THEN doc ELSE cs[i]]

\* { $set: { balance: d } }
IncBalanceAssign(cs, id, d) ==
    IF id \in DOMAIN cs THEN [cs EXCEPT ![id].balance = d] ELSE cs

\* $inc: { balance: d } on the document `id`; a no-op when it is gone.
IncBalance(cs, id, d) ==
    IF id \in DOMAIN cs THEN [cs EXCEPT ![id].balance = @ + d] ELSE cs

\* new Transaction({...}).save(): timestamps: true stamps createdAt.
NewTransaction(from, to, amount) ==
    [fromUserId |-> from, toUserId |-> to, amount |-> amount, createdAt |-> now]

\* The system account document the deposit handler creates.
HalifaxBank ==
    [email |-> SystemEmail, accountNumber |-> SystemAccountNumber,
     balance |-> 999999999, password |-> [plain |-> "system-account"],
     transactionPin |-> [plain |-> "1234"]]

\* A response: its status, its error or message, and the part of its body the
\* model keeps: the id of the customer it is about, or the statement summary.
Response(op, status, error, data) ==
    [op |-> op, status |-> status, error |-> error, data |-> data]

NoResponse == Response("none", 0, "", NoId)

Reply(op, status, error) == resp' = Response(op, status, error, NoId)

\* .select('-f1 -f2'): the document without the excluded fields
Select(doc, excluded) == [f \in DOMAIN doc \ excluded |-> doc[f]]

----------------------------------------------------------------------------
(* POST /api/admin/deposit *)

Deposit(session, accountNumber, amount) ==
    /\ Len(transactions) < MaxTx
    /\ UNCHANGED <<now, tokens, jwtEnv, procs>>
    /\ IF ~session
       THEN Reply("deposit", 401, "Unauthorized") /\ UNCHANGED store
       ELSE IF accountNumber = NoText \/ amount = 0
       THEN Reply("deposit", 400, "Account number and amount are required")
            /\ UNCHANGED store
       ELSE IF amount <= 0
       THEN Reply("deposit", 400, "Amount must be greater than 0")
            /\ UNCHANGED store
       ELSE LET customer == FindOneByAccountNumber(customers, accountNumber)
                found == FindOneByEmail(customers, SystemEmail)
                halifaxBank == IF found = NoId THEN nextId ELSE found
                saved == IF found = NoId
                         THEN Put(customers, nextId, HalifaxBank)
                         ELSE customers
            IN IF customer = NoId
               THEN Reply("deposit", 404, "Customer with this account number not found")
                    /\ UNCHANGED store
               ELSE IF found = NoId /\ DuplicateKey(customers, nextId, HalifaxBank)
               THEN \* halifaxBank.save() throws E11000; the catch answers 500
                    Reply("deposit", 500, "Internal server error")
                    /\ UNCHANGED store
               ELSE /\ transactions' =
                         Append(transactions, NewTransaction(halifaxBank, customer, amount))
                    /\ customers' = IncBalance(saved, customer, amount)
                    /\ nextId' = IF found = NoId THEN nextId + 1 ELSE nextId
                    /\ Reply("deposit", 201, "")

----------------------------------------------------------------------------
(* POST /api/admin/transactions (peer transfer) *)

InsufficientBalanceOffByOne(balance, amount) == balance + 1 < amount

InsufficientBalanceNever(balance, amount) == FALSE

\* if (fromUser.balance < amount)
InsufficientBalance(balance, amount) == balance < amount

UpdateBalancesCreditOnly(cs, fromUserId, toUserId, amount) ==
    IncBalance(cs, toUserId, amount)

\* $inc: { balance: -amount } on the source, then $inc: { balance: amount } on the
\* destination
UpdateBalances(cs, fromUserId, toUserId, amount) ==
    IncBalance(IncBalance(cs, fromUserId, -amount), toUserId, amount)

PeerTransfer(session, fromUserId, toUserId, amount) ==
    /\ Len(transactions) < MaxTx
    /\ UNCHANGED <<now, tokens, jwtEnv, procs, nextId>>
    /\ IF ~session
       THEN Reply("peerTransfer", 401, "Unauthorized")
            /\ UNCHANGED <<customers, transactions>>
       ELSE IF fromUserId = NoId \/ toUserId = NoId \/ amount = 0
       THEN Reply("peerTransfer", 400, "From user, to user, and amount are required")
            /\ UNCHANGED <<customers, transactions>>
       ELSE LET fromUser == FindById(customers, fromUserId)
                toUser == FindById(customers, toUserId)
            IN IF fromUser = NoId \/ toUser = NoId
               THEN Reply("peerTransfer", 404, "One or both users not found")
                    /\ UNCHANGED <<customers, transactions>>
               ELSE IF InsufficientBalance(customers[fromUser].balance, amount)
               THEN Reply("peerTransfer", 400, "Insufficient balance")
                    /\ UNCHANGED <<customers, transactions>>
               ELSE /\ transactions' =
                         Append(transactions, NewTransaction(fromUserId, toUserId, amount))
                    /\ customers' = UpdateBalances(customers, fromUserId, toUserId, amount)
                    /\ Reply("peerTransfer", 201, "")

----------------------------------------------------------------------------
(* PUT /api/admin/customers/[id] *)

\* /^\d{4,6}$/
IsPinFormat(p) == Len(p) \in 4..6 /\ \A i \in 1..Len(p) : p[i] \in Digits

ParseFloatOrOne(b) == IF b = <<>> THEN 1 ELSE b[1]

\* parseFloat(balance) || 0, the balance given as <<n>> or <<>> (none, unparseable)
ParseFloatOrZero(b) == IF b = <<>> THEN 0 ELSE b[1]

AdminUpdateCustomer(session, id, firstname, lastname, email, balance, password, transactionPin) ==
    /\ UNCHANGED <<transactions, nextId, now, tokens, jwtEnv, procs>>
    /\ IF ~session
       THEN Reply("updateCustomer", 401, "Unauthorized") /\ UNCHANGED customers
       ELSE IF firstname = Absent \/ lastname = Absent \/ email = Absent
       THEN Reply("updateCustomer", 400, "First name, last name, and email are required")
            /\ UNCHANGED customers
       ELSE IF FindById(customers, id) = NoId
       THEN Reply("updateCustomer", 404, "Customer not found") /\ UNCHANGED customers
       ELSE LET existingCustomer == customers[id]
                emailExists ==
                    /\ email # existingCustomer.email
                    /\ FindOneByEmail([i \in DOMAIN customers \ {id} |-> customers[i]],
                                      email) # NoId
                withPassword ==
                    IF password # Absent
                    THEN [existingCustomer EXCEPT !.password = BcryptHash(password)]
                    ELSE existingCustomer
                withPin ==
                    IF transactionPin # NoText
                    THEN [withPassword EXCEPT
                             !.transactionPin = BcryptHash(transactionPin)]
                    ELSE withPassword
                updated == [withPin EXCEPT !.email = Lower(email),
                                           !.balance = ParseFloatOrZero(balance)]
            IN IF emailExists
               THEN Reply("updateCustomer", 400, "Email already exists")
                    /\ UNCHANGED customers
               ELSE IF transactionPin # NoText /\ ~IsPinFormat(transactionPin)
               THEN Reply("updateCustomer", 400, "Transaction PIN must be 4-6 digits")
                    /\ UNCHANGED customers
               ELSE IF DuplicateKey(customers, id, updated)
               THEN \* findByIdAndUpdate throws E11000
                    Reply("updateCustomer", 400, "Email already exists")
                    /\ UNCHANGED customers
               ELSE customers' = Put(customers, id, updated)
                    /\ resp' = Response("updateCustomer", 200, "",
                                        Select(updated, {"password", "transactionPin"}))

----------------------------------------------------------------------------
(* JSON values of a request body, for the fields a client may send as text or *)
(* as a number *)

Txt(chars) == [t |-> "string", v |-> chars]     \* a JSON string, as characters
Num(n) == [t |-> "number", v |-> n]             \* a JSON number
Undef == [t |-> "undefined", v |-> 0]           \* the field is not in the body

\* JavaScript truthiness: !x is ~Truthy(x)
Truthy(x) == CASE x.t = "undefined" -> FALSE
               [] x.t = "number" -> x.v # 0
               [] OTHER -> x.v # <<>>

RECURSIVE DecimalDigits(_)
\* String(n) of a natural number
DecimalDigits(n) ==
    IF n < 10 THEN <<DigitOf(n)>> ELSE Append(DecimalDigits(n \div 10), DigitOf(n % 10))

\* String(x): the coercion RegExp.prototype.test applies to its argument
ToStr(x) == IF x.t = "number" THEN DecimalDigits(x.v) ELSE x.v

ValueOfDigit(c) == CHOOSE i \in 0..9 : DigitOf(i) = c

RECURSIVE DigitsValue(_)
DigitsValue(chars) ==
    IF chars = <<>> THEN 0
    ELSE 10 * DigitsValue(SubSeq(chars, 1, Len(chars) - 1))
         + ValueOfDigit(chars[Len(chars)])

\* The longest prefix of decimal digits
DigitPrefix(chars) ==
    LET stops == {i \in 1..Len(chars) : chars[i] \notin Digits}
    IN IF stops = {} THEN chars ELSE SubSeq(chars, 1, MinOf(stops) - 1)

Dollar == 100       \* minor units in 1.00

\* parseFloat(amount), in minor units: a number is itself; text is its leading
\* digits (whole dollars, the model's texts carry no sign or fraction), NaN
\* when there are none.
ParseFloat(x) ==
    CASE x.t = "number" -> [nan |-> FALSE, v |-> x.v]
      [] x.t = "string" /\ DigitPrefix(x.v) # <<>> ->
            [nan |-> FALSE, v |-> Dollar * DigitsValue(DigitPrefix(x.v))]
      [] OTHER -> [nan |-> TRUE, v |-> 0]

UpperLetters == {"A", "B", "C", "D", "E", "F", "G", "H", "I", "J", "K", "L", "M",
                 "N", "O", "P", "Q", "R", "S", "T", "U", "V", "W", "X", "Y", "Z"}
LowerLetters == {"a", "b", "c", "d", "e", "f", "g", "h", "i", "j", "k", "l", "m",
                 "n", "o", "p", "q", "r", "s", "t", "u", "v", "w", "x", "y", "z"}

\* /^[A-Z]{6}[A-Z0-9]{2}([A-Z0-9]{3})?$/
IsSwiftCode(c) ==
    /\ Len(c) \in {8, 11}
    /\ \A i \in 1..Len(c) :
          c[i] \in (IF i <= 6 THEN UpperLetters ELSE UpperLetters \cup Digits)

\* /^\d{10,12}$/
IsLocalAccountNumber(c) == Len(c) \in 10..12 /\ \A i \in 1..Len(c) : c[i] \in Digits

\* /^[a-zA-Z\s.'-]{2,50}$/
IsReceiverName(c) ==
    /\ Len(c) \in 2..50
    /\ \A i \in 1..Len(c) :
          c[i] \in UpperLetters \cup LowerLetters \cup {" ", ".", "'", "-"}

\* String.prototype.toUpperCase, character by character
UpperChar(c) ==
    IF c \in LowerLetters
    THEN CHOOSE u \in UpperLetters :
            \E k \in 1..26 :
               /\ <<"a", "b", "c", "d", "e", "f", "g", "h", "i", "j", "k", "l", "m",
                    "n", "o", "p", "q", "r", "s", "t", "u", "v", "w", "x", "y", "z">>[k] = c
               /\ <<"A", "B", "C", "D", "E", "F", "G", "H", "I", "J", "K", "L", "M",
                    "N", "O", "P", "Q", "R", "S", "T", "U", "V", "W", "X", "Y", "Z">>[k] = u
    ELSE c
ToUpperCase(chars) == [i \in 1..Len(chars) |-> UpperChar(chars[i])]

SupportedCurrencies ==
    {<<"U", "S", "D">>, <<"E", "U", "R">>, <<"G", "B", "P">>, <<"C", "A", "D">>,
     <<"A", "U", "D">>, <<"J", "P", "Y">>, <<"C", "H", "F">>}

----------------------------------------------------------------------------
(* Bearer tokens (jsonwebtoken) *)

TokenLifetime == 7      \* expiresIn: '7d', in days

\* No Authorization header, or one that does not start with "Bearer "
NoToken == [customerId |-> NoId, email |-> Absent, accountNumber |-> NoText,
            iat |-> 0, exp |-> 0, key |-> "absent"]

\* const JWT_SECRET = process.env.JWT_SECRET || 'your-secret-key-change-in-production'
JwtSecret == IF jwtEnv THEN "env" ELSE "fallback"

\* process.env.JWT_SECRET! : undefined when the variable is not set
JwtSecretOfEnv == IF jwtEnv THEN "env" ELSE "none"

\* jwt.sign(payload, key, { expiresIn: '7d' }) at time `at`
JwtSign(customerId, email, accountNumber, key, at) ==
    [customerId |-> customerId, email |-> email, accountNumber |-> accountNumber,
     iat |-> at, exp |-> at + TokenLifetime, key |-> key]

JwtVerifyIgnoringExpiry(token, key) == key # "none" /\ token.key = key

JwtVerifyShortLived(token, key) == key # "none" /\ token.key = key /\ now < token.iat + 3

\* jwt.verify(token, key) does not throw: a key is given, the signature is the
\* key's, and the clock has not reached exp.
JwtVerify(token, key) == key # "none" /\ token.key = key /\ now < token.exp

----------------------------------------------------------------------------
(* POST /api/customer/transfer *)

TransferReply(status, error) == Response("transfer", status, error, NoId)

DailyLimit == 10000     \* const dailyLimit = 10000, in dollars
LocalFee == 250         \* 2.50, in minor units

\* customer.balance < transferAmount + transferFee, the fee being 2% of the amount
\* for an international transfer (50 * fee = amount) and 2.50 for a local one
BalanceBelowTotal(balance, transferType, transferAmount) ==
    IF transferType = "international"
    THEN 50 * balance < 51 * transferAmount
    ELSE balance < transferAmount + LocalFee

\* The response of the handler to request r in the current state.
CustomerTransferResponse(r) ==
    LET transferAmount == ParseFloat(r.amount)
        decoded == r.authorization
        customer == FindById(customers, decoded.customerId)
    IN
    IF r.authorization = NoToken
    THEN TransferReply(401, "Authorization token required")
    ELSE IF ~JwtVerify(r.authorization, JwtSecretOfEnv)
    THEN TransferReply(401, "Invalid or expired token")
    ELSE IF \/ r.transferType = Absent \/ r.receiverName = NoText
            \/ ~Truthy(r.receiverAccountNumber) \/ ~Truthy(r.amount)
            \/ ~Truthy(r.transactionPin)
    THEN TransferReply(400, "Transfer type, receiver name, account number, amount, and transaction PIN are required")
    ELSE IF r.transferType \notin {"local", "international"}
    THEN TransferReply(400, "Transfer type must be either local or international")
    ELSE IF transferAmount.nan \/ transferAmount.v <= 0
    THEN TransferReply(400, "Amount must be a positive number")
    ELSE IF transferAmount.v < Dollar
    THEN TransferReply(400, "Minimum transfer amount is $1.00")
    ELSE IF /\ r.transferType = "international"
            /\ (\/ r.receiverBankName = Absent \/ r.receiverSwiftCode = NoText
                \/ r.receiverAddress = Absent)
    THEN TransferReply(400, "Bank name, SWIFT code, and receiver address are required for international transfers")
    ELSE IF r.transferType = "international" /\ ~IsSwiftCode(r.receiverSwiftCode)
    THEN TransferReply(400, "Invalid SWIFT code format")
    ELSE IF r.transferType = "local" /\ r.receiverBankName = Absent
    THEN TransferReply(400, "Bank name is required for local transfers")
    ELSE IF /\ r.transferType = "local"
            /\ ~IsLocalAccountNumber(ToStr(r.receiverAccountNumber))
    THEN TransferReply(400, "Account number must be 10-12 digits for local transfers")
    ELSE IF ~IsPinFormat(ToStr(r.transactionPin))
    THEN TransferReply(400, "Transaction PIN must be 4-6 digits")
    ELSE IF customer = NoId
    THEN TransferReply(404, "Customer not found")
    ELSE IF r.transactionPin.t # "string"
    THEN \* bcrypt.compare throws "Illegal arguments"; the catch answers 500
         TransferReply(500, "Internal server error")
    ELSE IF ~BcryptCompare(r.transactionPin.v, customers[customer].transactionPin)
    THEN TransferReply(400, "Invalid transaction PIN")
    ELSE IF customers[customer].balance < transferAmount.v
    THEN TransferReply(400, "Insufficient balance for this transfer")
    ELSE IF BalanceBelowTotal(customers[customer].balance, r.transferType,
                              transferAmount.v)
    THEN TransferReply(400, "Insufficient balance. Transfer amount, fee, total required, available")
    ELSE IF ~IsReceiverName(r.receiverName)
    THEN TransferReply(400, "Receiver name must be 2-50 characters")
    ELSE IF r.receiverAccountNumber = Txt(customers[customer].accountNumber)
    THEN TransferReply(400, "Cannot transfer to your own account")
    ELSE IF /\ r.transferType = "international" /\ Truthy(r.currency)
            /\ r.currency.t # "string"
    THEN \* currency.toUpperCase is not a function; the catch answers 500
         TransferReply(500, "Internal server error")
    ELSE IF /\ r.transferType = "international" /\ Truthy(r.currency)
            /\ ToUpperCase(r.currency.v) \notin SupportedCurrencies
    THEN TransferReply(400, "Unsupported currency")
    ELSE IF transferAmount.v > DailyLimit * Dollar
    THEN TransferReply(400, "Transfer amount exceeds daily limit")
    ELSE IF r.receiverAccountNumber.t # "string"
    THEN \* receiverAccountNumber.replace is not a function; the catch answers 500
         TransferReply(500, "Internal server error")
    ELSE TransferReply(503, "Transfer service is currently unavailable")

CustomerTransferAndDebit(r) ==
    /\ resp' = CustomerTransferResponse(r)
    /\ customers' =
         IF resp'.status = 503
         THEN IncBalance(customers, r.authorization.customerId, -ParseFloat(r.amount).v)
         ELSE customers
    /\ UNCHANGED <<transactions, nextId, now, tokens, jwtEnv, procs>>

\* The handler reads the store and answers; it writes nothing.
CustomerTransfer(r) ==
    /\ resp' = CustomerTransferResponse(r)
    /\ UNCHANGED <<customers, transactions, nextId, now, tokens, jwtEnv, procs>>

----------------------------------------------------------------------------
(* The ledger: deposits and peer transfers, one handler at a time              *)

Pin1234 == <<"1", "2", "3", "4">>

\* A customer document as customer registration stores it.
CustomerDoc(email, accountNumber, balance, password, pin) ==
    [email |-> email, accountNumber |-> accountNumber, balance |-> balance,
     password |-> BcryptHash(password), transactionPin |-> BcryptHash(pin)]

LedgerIds == 0..3
LedgerAccounts == {NoText, AcctNo(1), AcctNo(2), AcctNo(9), SystemAccountNumber}
LedgerAmounts == (-1)..MaxAmount

InitLedger ==
    /\ \E balance \in {0, -1} :
          customers = (1 :> CustomerDoc("a@x", AcctNo(1), 2, "pw1", Pin1234)
                       @@ 2 :> CustomerDoc("b@x", AcctNo(2), balance, "pw2", Pin1234))
    /\ transactions = <<>>
    /\ nextId = 3
    /\ now = 0
    /\ tokens = {}
    /\ jwtEnv = TRUE
    /\ procs = <<>>
    /\ req = <<>>
    /\ sites = <<>>
    /\ resp = NoResponse

NextLedger ==
    \/ \E session \in BOOLEAN, accountNumber \in LedgerAccounts, amount \in LedgerAmounts :
          Deposit(session, accountNumber, amount) /\ UNCHANGED <<req, sites>>
    \/ \E session \in BOOLEAN, fromUserId \in LedgerIds, toUserId \in LedgerIds,
          amount \in LedgerAmounts :
          PeerTransfer(session, fromUserId, toUserId, amount) /\ UNCHANGED <<req, sites>>

SpecLedger == InitLedger /\ [][NextLedger]_vars

LastTx == transactions[Len(transactions)]

\* The back office: deposits and admin edits of customers, one handler at a time.
NextBackOffice ==
    \/ \E session \in BOOLEAN, accountNumber \in LedgerAccounts, amount \in LedgerAmounts :
          Deposit(session, accountNumber, amount) /\ UNCHANGED <<req, sites>>
    \/ \E session \in BOOLEAN, id \in LedgerIds \ {NoId}, firstname \in {Absent, "Ann"},
          email \in {Absent, "a@x", "c@x"}, balance \in {<<>>, <<-1>>} :
          AdminUpdateCustomer(session, id, firstname, "Lee", email, balance, Absent, NoText)
          /\ UNCHANGED <<req, sites>>

SpecBackOffice == InitLedger /\ [][NextBackOffice]_vars

\* C1 (as claimed): every deposit made with an admin session, an existing account
\* number X and an amount A > 0 adds A to X's balance and creates exactly one
\* transaction record, from the system account (e-mail halifax@bank.system) to X,
\* of amount A.
C1_DepositCreditsAndRecords ==
    [][\A accountNumber \in LedgerAccounts \ {NoText}, amount \in 1..MaxAmount :
          LET x == FindOneByAccountNumber(customers, accountNumber)
          IN (x # NoId /\ resp'.op = "deposit" /\ Deposit(TRUE, accountNumber, amount))
             => /\ x \in DOMAIN customers'
                /\ customers'[x].balance = customers[x].balance + amount
                /\ Len(transactions') = Len(transactions) + 1
                /\ SubSeq(transactions', 1, Len(transactions)) = transactions
                /\ transactions'[Len(transactions')].toUserId = x
                /\ transactions'[Len(transactions')].amount = amount
                /\ transactions'[Len(transactions')].fromUserId
                      = FindOneByEmail(customers', SystemEmail)]_vars

\* C2: every admin peer transfer of amount A > 0 from an existing account X to a
\* different existing account Y with X.balance >= A, run on its own, lowers
\* X.balance by exactly A, raises Y.balance by exactly A, leaves every other
\* balance alone and creates exactly one transaction record (X, Y, A).
C2_PeerTransferMovesAmount ==
    [][\A x \in LedgerIds, y \in LedgerIds, amount \in 1..MaxAmount :
          (/\ x # y /\ x \in DOMAIN customers /\ y \in DOMAIN customers
           /\ customers[x].balance >= amount
           /\ resp'.op = "peerTransfer"
           /\ PeerTransfer(TRUE, x, y, amount))
          => /\ resp'.status = 201
             /\ DOMAIN customers' = DOMAIN customers
             /\ customers'[x].balance = customers[x].balance - amount
             /\ customers'[y].balance = customers[y].balance + amount
             /\ \A z \in DOMAIN customers \ {x, y} : customers'[z] = customers[z]
             /\ transactions' = Append(transactions,
                                       [fromUserId |-> x, toUserId |-> y,
                                        amount |-> amount, createdAt |-> now])]_vars

\* C2's case: a peer transfer between two different accounts was committed.
C2_Witness ==
    /\ resp.op = "peerTransfer" /\ resp.status = 201
    /\ Len(transactions) > 0
    /\ LastTx.amount > 0 /\ LastTx.fromUserId # LastTx.toUserId

\* C3 (as claimed): an admin peer transfer between existing accounts whose amount
\* is <= 0 answers 400 and changes no balance and no transaction record.
C3_NonPositiveAmountRejected ==
    [][\A x \in LedgerIds, y \in LedgerIds, amount \in LedgerAmounts :
          (/\ x \in DOMAIN customers /\ y \in DOMAIN customers
           /\ amount <= 0
           /\ resp'.op = "peerTransfer"
           /\ PeerTransfer(TRUE, x, y, amount))
          => /\ resp'.status = 400
             /\ UNCHANGED <<customers, transactions>>]_vars

\* C4 (as claimed): an admin peer transfer of amount A between existing accounts
\* with X.balance < A is answered 400 "Insufficient balance" and changes nothing.
\* (Stated over histories in which every recorded amount is positive, so that a
\* negative balance can only be one an admin entered.)
C4_Original ==
    [][\A x \in LedgerIds, y \in LedgerIds, amount \in LedgerAmounts :
          (/\ x \in DOMAIN customers /\ y \in DOMAIN customers
           /\ customers[x].balance < amount
           /\ \A i \in 1..Len(transactions) : transactions[i].amount > 0
           /\ resp'.op = "peerTransfer"
           /\ PeerTransfer(TRUE, x, y, amount))
          => /\ resp'.status = 400 /\ resp'.error = "Insufficient balance"
             /\ UNCHANGED <<customers, transactions>>]_vars

\* C4 (amended): with X.balance < A the transfer is answered 400 and changes no
\* balance and no transaction record; the error is "Insufficient balance" when
\* A # 0, and the required-fields validation error when A = 0.
C4_InsufficientBalanceRejected ==
    [][\A x \in LedgerIds, y \in LedgerIds, amount \in LedgerAmounts :
          (/\ x \in DOMAIN customers /\ y \in DOMAIN customers
           /\ customers[x].balance < amount
           /\ resp'.op = "peerTransfer"
           /\ PeerTransfer(TRUE, x, y, amount))
          => /\ resp'.status = 400
             /\ resp'.error = IF amount # 0
                              THEN "Insufficient balance"
                              ELSE "From user, to user, and amount are required"
             /\ UNCHANGED <<customers, transactions>>]_vars

\* C4's case: a transfer was refused for insufficient balance.
C4_Witness ==
    /\ resp.op = "peerTransfer" /\ resp.status = 400
    /\ resp.error = "Insufficient balance"

----------------------------------------------------------------------------
(* The customer transfer endpoint: one request against a store that holds      *)
(* customer 1, with tokens issued earlier to customer 1 and to a customer 2    *)
(* who has been deleted since.                                                 *)

TransferBalances == {99, 101, 1100000}

TokenOf1(key, at) == JwtSign(1, "a@x", AcctNo(1), key, at)
TokenOf2(key, at) == JwtSign(2, "b@x", AcctNo(2), key, at)

\* Tokens login issued under `key` on day 0 and day 3.
IssuedTokens(key) == {TokenOf1(key, 0), TokenOf1(key, 3), TokenOf2(key, 3)}

\* A token signed by somebody who does not hold the server's key.
ForgedToken == TokenOf1("other", 3)

TransferFields ==
    {"authorization", "transferType", "receiverName", "receiverAccountNumber",
     "receiverBankName", "receiverSwiftCode", "receiverAddress", "amount",
     "currency", "transactionPin"}

AllTransferRequests ==
    [authorization : IssuedTokens("env") \cup IssuedTokens("fallback")
                     \cup {ForgedToken, NoToken},
     transferType : {Absent, "local", "international", "wire"},
     receiverName : {NoText, <<"J", "o", " ", "D", ".">>, <<"J", "4">>},
     receiverAccountNumber :
         {Undef, Txt(AcctNo(1)), Txt(AcctNo(2)), Txt(<<"1", "2", "3">>),
          Num(1000000002)},
     receiverBankName : {Absent, "Bank"},
     receiverSwiftCode :
         {NoText, <<"D", "E", "U", "T", "D", "E", "F", "F">>,
          <<"d", "e", "u", "t", "D", "E", "F", "F">>},
     receiverAddress : {Absent, "1 Main St"},
     amount : {Undef, Num(50), Num(100), Num(1000100), Txt(<<"a", "b", "c">>)},
     currency : {Undef, Txt(<<"e", "u", "r">>), Txt(<<"x", "y", "z">>), Num(840)},
     transactionPin :
         {Undef, Txt(Pin1234), Txt(<<"4", "3", "2", "1">>), Txt(<<"1", "2">>),
          Num(1234)}]

\* A local and an international request that pass every validation.
LocalRequest ==
    [authorization |-> TokenOf1("env", 3), transferType |-> "local",
     receiverName |-> <<"J", "o", " ", "D", ".">>,
     receiverAccountNumber |-> Txt(AcctNo(2)), receiverBankName |-> "Bank",
     receiverSwiftCode |-> NoText, receiverAddress |-> Absent,
     amount |-> Num(100), currency |-> Undef, transactionPin |-> Txt(Pin1234)]

InternationalRequest ==
    [LocalRequest EXCEPT !.transferType = "international",
                         !.receiverSwiftCode = <<"D", "E", "U", "T", "D", "E", "F", "F">>,
                         !.receiverAddress = "1 Main St",
                         !.currency = Txt(<<"e", "u", "r">>)]

Distance(r, base) == Cardinality({f \in TransferFields : r[f] # base[f]})

TransferRequests ==
    {r \in AllTransferRequests :
        \/ Distance(r, LocalRequest) <= MaxPerturbed
        \/ Distance(r, InternationalRequest) <= MaxPerturbed}

InitTransfer ==
    /\ \E balance \in TransferBalances :
          customers = (1 :> CustomerDoc("a@x", AcctNo(1), balance, "pw1", Pin1234))
    /\ transactions = <<>>
    /\ nextId = 3
    /\ now = 7
    /\ jwtEnv \in BOOLEAN
    /\ tokens = IssuedTokens(JwtSecret)
    /\ procs = <<>>
    /\ req = <<>>
    /\ sites = <<>>
    /\ resp = NoResponse

NextTransfer ==
    /\ resp.op = "none"
    /\ \E r \in TransferRequests :
          /\ r.authorization \in tokens \cup {ForgedToken, NoToken}
          /\ CustomerTransfer(r)
          /\ req' = r /\ UNCHANGED sites

SpecTransfer == InitTransfer /\ [][NextTransfer]_vars

\* C5: whatever the store, the request body and the token, and whatever status
\* it answers, POST /customer/transfer changes no customer document and creates
\* no transaction record.
C5_TransferWritesNothing ==
    [][resp'.op = "transfer" => UNCHANGED <<customers, transactions>>]_vars

\* C5's case: a transfer request passed every validation and was answered.
C5_Witness == resp.op = "transfer" /\ resp.status = 503

\* The validations C6 lists, read off the request (a number is read as its text).
TransferAllValid(r) ==
    LET amount == ParseFloat(r.amount)
        own == FindById(customers, r.authorization.customerId)
    IN /\ r.authorization # NoToken
       /\ JwtVerify(r.authorization, JwtSecretOfEnv)
       /\ own # NoId
       /\ r.transferType \in {"local", "international"}
       /\ r.receiverName # NoText /\ IsReceiverName(r.receiverName)
       /\ Truthy(r.receiverAccountNumber)
       /\ ~amount.nan /\ amount.v >= Dollar /\ amount.v <= DailyLimit * Dollar
       /\ r.receiverBankName # Absent
       /\ r.transferType = "international"
            => /\ r.receiverSwiftCode # NoText /\ IsSwiftCode(r.receiverSwiftCode)
               /\ r.receiverAddress # Absent
               /\ Truthy(r.currency)
                    => ToUpperCase(ToStr(r.currency)) \in SupportedCurrencies
       /\ r.transferType = "local"
            => IsLocalAccountNumber(ToStr(r.receiverAccountNumber))
       /\ Truthy(r.transactionPin) /\ IsPinFormat(ToStr(r.transactionPin))
       /\ customers[own].transactionPin = BcryptHash(ToStr(r.transactionPin))
       /\ ToStr(r.receiverAccountNumber) # customers[own].accountNumber
       /\ IF r.transferType = "international"
          THEN 50 * customers[own].balance >= 51 * amount.v
          ELSE customers[own].balance >= amount.v + LocalFee

\* C6 (as claimed): POST /customer/transfer never answers 2xx; it answers 503
\* exactly when the token is valid, the customer exists and every validation
\* passes, and 400, 401 or 404 when one of them fails.
C6_TransferStatus ==
    resp.op = "transfer"
    => /\ resp.status \notin 200..299
       /\ resp.status = 503 <=> TransferAllValid(req)
       /\ ~TransferAllValid(req) => resp.status \in {400, 401, 404}

----------------------------------------------------------------------------
(* Handlers running concurrently.  Each process runs one handler at a time and *)
(* takes one step per awaited store operation; the synchronous code before an  *)
(* await belongs to the step of that await.                                    *)

Procs == {1, 2}

MaxCustomers == 3       \* customer documents created in one behaviour

\* const maxAttempts = 10
MaxAttempts == 10

\* The numbers Math.random() draws; AcctNo(1) belongs to customer 1 from the start.
AccountNumberPool == {AcctNo(1), AcctNo(2), AcctNo(3)}

IdleProc ==
    [pc |-> "idle", op |-> "none", email |-> Absent, accountNumber |-> NoText,
     attempts |-> 0, id |-> NoId, sys |-> NoId, amount |-> 0,
     password |-> Absent, transactionPin |-> NoText, phone |-> Absent,
     from |-> NoId, balance |-> 0]

\* The handler of process p returns a response.
Return(p, op, status, error) ==
    /\ procs' = [procs EXCEPT ![p] = IdleProc]
    /\ Reply(op, status, error)

\* The handler of process p goes on to its next await with locals `next`.
Goto(p, next) == procs' = [procs EXCEPT ![p] = next] /\ UNCHANGED resp

\* POST /api/customer/auth/register, up to the existence check
RegisterBegin(p, firstname, email, password, transactionPin) ==
    /\ procs[p].pc = "idle"
    /\ nextId <= MaxCustomers
    /\ UNCHANGED <<customers, transactions, nextId, now, tokens, jwtEnv>>
    /\ IF firstname = Absent \/ email = Absent \/ password = Absent
          \/ transactionPin = NoText
       THEN Return(p, "register", 400,
                   "First name, last name, email, password, and transaction PIN are required")
       ELSE IF ~IsPinFormat(transactionPin)
       THEN Return(p, "register", 400, "Transaction PIN must be 4-6 digits")
       ELSE IF FindOneByEmail(customers, email) # NoId
       THEN Return(p, "register", 409, "Customer with this email already exists")
       ELSE Goto(p, [IdleProc EXCEPT !.pc = "draw", !.op = "register",
                                     !.email = email, !.password = password,
                                     !.transactionPin = transactionPin])

\* POST /api/admin/customers, up to the existence check
CreateBegin(p, session, email, balance, password, transactionPin) ==
    /\ procs[p].pc = "idle"
    /\ nextId <= MaxCustomers
    /\ UNCHANGED <<customers, transactions, nextId, now, tokens, jwtEnv>>
    /\ IF ~session
       THEN Return(p, "createCustomer", 401, "Unauthorized")
       ELSE IF FindOneByEmail(customers, email) # NoId
       THEN Return(p, "createCustomer", 400, "Customer with this email already exists")
       ELSE Goto(p, [IdleProc EXCEPT !.pc = "draw", !.op = "createCustomer",
                                     !.email = email, !.amount = balance,
                                     !.password = password,
                                     !.transactionPin = transactionPin])

\* One iteration of the loop of generateUniqueAccountNumber: draw n, look it up.
GenerateUniqueAccountNumber(p, n) ==
    /\ procs[p].pc = "draw"
    /\ UNCHANGED <<customers, transactions, nextId, now, tokens, jwtEnv>>
    /\ LET isUnique == FindOneByAccountNumber(customers, n) = NoId
           attempts == procs[p].attempts + 1
       IN IF isUnique
          THEN Goto(p, [procs[p] EXCEPT !.pc = "save", !.accountNumber = n,
                                        !.attempts = 0])
          ELSE IF attempts < MaxAttempts
          THEN Goto(p, [procs[p] EXCEPT !.attempts = attempts])
          ELSE IF procs[p].op = "register"
          THEN Return(p, "register", 500, "Internal server error")
          ELSE Return(p, "createCustomer", 500,
                      "Failed to generate unique account number after multiple attempts")

\* newCustomer.save() and the response of the registration
RegisterSave(p) ==
    /\ procs[p].pc = "save" /\ procs[p].op = "register"
    /\ UNCHANGED <<transactions, now, jwtEnv>>
    /\ LET newCustomer == CustomerDoc(Lower(procs[p].email), procs[p].accountNumber, 0,
                                      procs[p].password, procs[p].transactionPin)
       IN IF DuplicateKey(customers, nextId, newCustomer)
          THEN /\ Return(p, "register", 409,
                         "Customer with this email or account number already exists")
               /\ UNCHANGED <<customers, nextId, tokens>>
          ELSE /\ customers' = Put(customers, nextId, newCustomer)
               /\ nextId' = nextId + 1
               /\ tokens' = tokens \cup {JwtSign(nextId, newCustomer.email,
                                                 newCustomer.accountNumber,
                                                 JwtSecret, now)}
               /\ Return(p, "register", 201, "")

\* Customer.create({...}) and the response of the admin creation
CreateSave(p) ==
    /\ procs[p].pc = "save" /\ procs[p].op = "createCustomer"
    /\ UNCHANGED <<transactions, now, tokens, jwtEnv>>
    /\ LET newCustomer == CustomerDoc(Lower(procs[p].email), procs[p].accountNumber,
                                      procs[p].amount, procs[p].password,
                                      procs[p].transactionPin)
       IN IF DuplicateKey(customers, nextId, newCustomer)
          THEN /\ Return(p, "createCustomer", 500, "E11000 duplicate key error")
               /\ UNCHANGED <<customers, nextId>>
          ELSE /\ customers' = Put(customers, nextId, newCustomer)
               /\ nextId' = nextId + 1
               /\ procs' = [procs EXCEPT ![p] = IdleProc]
               /\ resp' = Response("createCustomer", 200, "",
                                   Select(newCustomer, {"password", "transactionPin"}))

\* PUT /api/admin/customers/[id] with no password and no PIN in the body, up to
\* Customer.findById
UpdateBegin(p, session, id, firstname, lastname, email, balance) ==
    /\ procs[p].pc = "idle"
    /\ UNCHANGED <<customers, transactions, nextId, now, tokens, jwtEnv>>
    /\ IF ~session
       THEN Return(p, "updateCustomer", 401, "Unauthorized")
       ELSE IF firstname = Absent \/ lastname = Absent \/ email = Absent
       THEN Return(p, "updateCustomer", 400,
                   "First name, last name, and email are required")
       ELSE IF FindById(customers, id) = NoId
       THEN Return(p, "updateCustomer", 404, "Customer not found")
       ELSE Goto(p, [IdleProc EXCEPT
                        !.pc = IF email # customers[id].email
                               THEN "checkEmail" ELSE "update",
                        !.op = "updateCustomer", !.id = id, !.email = email,
                        !.amount = ParseFloatOrZero(balance)])

\* Customer.findOne({ email: email.toLowerCase(), _id: { $ne: id } })
UpdateCheckEmail(p) ==
    /\ procs[p].pc = "checkEmail"
    /\ UNCHANGED <<customers, transactions, nextId, now, tokens, jwtEnv>>
    /\ LET others == [i \in DOMAIN customers \ {procs[p].id} |-> customers[i]]
       IN IF FindOneByEmail(others, procs[p].email) # NoId
          THEN Return(p, "updateCustomer", 400, "Email already exists")
          ELSE Goto(p, [procs[p] EXCEPT !.pc = "update"])

\* Customer.findByIdAndUpdate(id, updateData, ...) and the response
UpdateWrite(p) ==
    /\ procs[p].pc = "update"
    /\ UNCHANGED <<transactions, nextId, now, tokens, jwtEnv>>
    /\ LET id == procs[p].id
       IN IF id \notin DOMAIN customers
          THEN Return(p, "updateCustomer", 500, "Failed to update customer")
               /\ UNCHANGED customers
          ELSE LET updated == [customers[id] EXCEPT !.email = Lower(procs[p].email),
                                                    !.balance = procs[p].amount]
               IN IF DuplicateKey(customers, id, updated)
                  THEN Return(p, "updateCustomer", 400, "Email already exists")
                       /\ UNCHANGED customers
                  ELSE customers' = Put(customers, id, updated)
                       /\ Return(p, "updateCustomer", 200, "")

\* POST /api/admin/deposit, up to Customer.findOne({ accountNumber })
DepositBegin(p, session, accountNumber, amount) ==
    /\ procs[p].pc = "idle"
    /\ Len(transactions) < MaxTx
    /\ UNCHANGED <<customers, transactions, nextId, now, tokens, jwtEnv>>
    /\ IF ~session
       THEN Return(p, "deposit", 401, "Unauthorized")
       ELSE IF accountNumber = NoText \/ amount = 0
       THEN Return(p, "deposit", 400, "Account number and amount are required")
       ELSE IF amount <= 0
       THEN Return(p, "deposit", 400, "Amount must be greater than 0")
       ELSE IF FindOneByAccountNumber(customers, accountNumber) = NoId
       THEN Return(p, "deposit", 404, "Customer with this account number not found")
       ELSE Goto(p, [IdleProc EXCEPT
                        !.pc = "findSystem", !.op = "deposit", !.amount = amount,
                        !.id = FindOneByAccountNumber(customers, accountNumber)])

\* Customer.findOne({ email: 'halifax@bank.system' })
DepositFindSystem(p) ==
    /\ procs[p].pc = "findSystem"
    /\ UNCHANGED <<customers, transactions, nextId, now, tokens, jwtEnv>>
    /\ LET halifaxBank == FindOneByEmail(customers, SystemEmail)
       IN IF halifaxBank = NoId
          THEN Goto(p, [procs[p] EXCEPT !.pc = "createSystem"])
          ELSE Goto(p, [procs[p] EXCEPT !.pc = "saveTx", !.sys = halifaxBank])

\* halifaxBank.save()
DepositCreateSystem(p) ==
    /\ procs[p].pc = "createSystem"
    /\ UNCHANGED <<transactions, now, tokens, jwtEnv>>
    /\ IF DuplicateKey(customers, nextId, HalifaxBank)
       THEN Return(p, "deposit", 500, "Internal server error")
            /\ UNCHANGED <<customers, nextId>>
       ELSE /\ customers' = Put(customers, nextId, HalifaxBank)
            /\ nextId' = nextId + 1
            /\ Goto(p, [procs[p] EXCEPT !.pc = "saveTx", !.sys = nextId])

\* transaction.save()
DepositSaveTx(p) ==
    /\ procs[p].pc = "saveTx"
    /\ UNCHANGED <<customers, nextId, now, tokens, jwtEnv>>
    /\ transactions' = Append(transactions,
                              NewTransaction(procs[p].sys, procs[p].id, procs[p].amount))
    /\ Goto(p, [procs[p] EXCEPT !.pc = "inc"])

\* Customer.findByIdAndUpdate(customer._id, { $inc: { balance: amount } })
DepositInc(p) ==
    /\ procs[p].pc = "inc"
    /\ UNCHANGED <<transactions, nextId, now, tokens, jwtEnv>>
    /\ customers' = IncBalance(customers, procs[p].id, procs[p].amount)
    /\ Goto(p, [procs[p] EXCEPT !.pc = "depositPopulate"])

DepositPopulateAlwaysCreated(p) ==
    /\ procs[p].pc = "depositPopulate"
    /\ UNCHANGED <<customers, transactions, nextId, now, tokens, jwtEnv>>
    /\ Return(p, "deposit", 201, "")

\* Customer.findById(customer._id), Transaction.findById(...).populate(...) and the
\* response: a populated reference to a customer that is gone is null
DepositPopulate(p) ==
    /\ procs[p].pc = "depositPopulate"
    /\ UNCHANGED <<customers, transactions, nextId, now, tokens, jwtEnv>>
    /\ IF FindById(customers, procs[p].sys) = NoId \/ FindById(customers, procs[p].id) = NoId
       THEN Return(p, "deposit", 500, "Failed to retrieve transaction details")
       ELSE Return(p, "deposit", 201, "")

----------------------------------------------------------------------------
(* Registrations running concurrently against a store that holds customer 1   *)

InitAccounts ==
    /\ customers = (1 :> CustomerDoc("a@x", AcctNo(1), 0, "pw1", Pin1234))
    /\ transactions = <<>>
    /\ nextId = 2
    /\ now = 0
    /\ tokens = {}
    /\ jwtEnv = TRUE
    /\ procs = [p \in Procs |-> IdleProc]
    /\ req = <<>>
    /\ sites = <<>>
    /\ resp = NoResponse

RegisterFirstNames == {Absent, "Ann"}
RegisterEmails == {"a@x", "A@x", "n@x", "N@x"}
RegisterPins == {Pin1234, <<"1", "2">>}

NextRegister ==
    \/ \E p \in Procs, firstname \in RegisterFirstNames, email \in RegisterEmails,
          transactionPin \in RegisterPins :
          RegisterBegin(p, firstname, email, "pw9", transactionPin) /\ UNCHANGED <<req, sites>>
    \/ \E p \in Procs, n \in AccountNumberPool :
          GenerateUniqueAccountNumber(p, n) /\ UNCHANGED <<req, sites>>
    \/ \E p \in Procs : RegisterSave(p) /\ UNCHANGED <<req, sites>>

SpecRegister == InitAccounts /\ [][NextRegister]_vars

\* Some customer holds the e-mail (as the schema stores it).
EmailTaken(email) == \E i \in DOMAIN customers : customers[i].email = Lower(email)

AccountNumberTaken(n) == \E i \in DOMAIN customers : customers[i].accountNumber = n

\* C8 (as claimed): a registration with an e-mail some customer holds answers 409
\* and creates no customer; a registration that passed the existence check and
\* ends after another one has created the customer of that e-mail answers 409.
C8_Original ==
    [][/\ \A p \in Procs, firstname \in RegisterFirstNames, email \in RegisterEmails,
             transactionPin \in RegisterPins :
             (/\ EmailTaken(email)
              /\ RegisterBegin(p, firstname, email, "pw9", transactionPin))
             => resp'.status = 409 /\ customers' = customers
       /\ \A p \in Procs :
             (/\ procs[p].op = "register" /\ procs'[p].pc = "idle"
              /\ EmailTaken(procs[p].email))
             => resp'.status = 409 /\ customers' = customers]_vars

\* C8 (amended): a registration whose fields pass validation and whose e-mail some
\* customer holds answers 409 and creates no customer; the save of a registration
\* that passed the existence check answers 409 and creates nothing when a customer
\* holds its e-mail (or its account number) by then, and otherwise creates the one
\* customer of that e-mail and answers 201.
C8_DuplicateEmailRejected ==
    [][/\ \A p \in Procs, email \in RegisterEmails :
             (/\ EmailTaken(email)
              /\ RegisterBegin(p, "Ann", email, "pw9", Pin1234))
             => resp'.status = 409 /\ customers' = customers
       /\ \A p \in Procs :
             RegisterSave(p)
             => IF EmailTaken(procs[p].email) \/ AccountNumberTaken(procs[p].accountNumber)
                THEN resp'.status = 409 /\ customers' = customers
                ELSE /\ resp'.status = 201
                     /\ DOMAIN customers' = DOMAIN customers \cup {nextId}
                     /\ \A i \in DOMAIN customers : customers'[i] = customers[i]
                     /\ customers'[nextId].email = Lower(procs[p].email)]_vars

\* C8's case: the save of a registration was refused by the unique index after
\* another registration had created its customer.
C8_Witness ==
    /\ resp.op = "register" /\ resp.status = 409
    /\ resp.error = "Customer with this email or account number already exists"
    /\ \E i \in DOMAIN customers : customers[i].email = "n@x"

----------------------------------------------------------------------------
(* Every handler that writes customer documents, running concurrently          *)

AccountsEmails == {"A@x", "n@x"}

NextAccounts ==
    \/ \E p \in Procs, email \in AccountsEmails :
          RegisterBegin(p, "Ann", email, "pw9", Pin1234) /\ UNCHANGED <<req, sites>>
    \/ \E p \in Procs, session \in BOOLEAN, email \in AccountsEmails :
          CreateBegin(p, session, email, 0, "pw8", Pin1234) /\ UNCHANGED <<req, sites>>
    \/ \E p \in Procs, n \in AccountNumberPool :
          GenerateUniqueAccountNumber(p, n) /\ UNCHANGED <<req, sites>>
    \/ \E p \in Procs : RegisterSave(p) /\ UNCHANGED <<req, sites>>
    \/ \E p \in Procs : CreateSave(p) /\ UNCHANGED <<req, sites>>
    \/ \E p \in Procs, id \in 1..MaxCustomers, email \in AccountsEmails :
          UpdateBegin(p, TRUE, id, "Ann", "Lee", email, <<>>) /\ UNCHANGED <<req, sites>>
    \/ \E p \in Procs : UpdateCheckEmail(p) /\ UNCHANGED <<req, sites>>
    \/ \E p \in Procs : UpdateWrite(p) /\ UNCHANGED <<req, sites>>
    \/ \E p \in Procs : DepositBegin(p, TRUE, AcctNo(1), 1) /\ UNCHANGED <<req, sites>>
    \/ \E p \in Procs : DepositFindSystem(p) /\ UNCHANGED <<req, sites>>
    \/ \E p \in Procs : DepositCreateSystem(p) /\ UNCHANGED <<req, sites>>
    \/ \E p \in Procs : DepositSaveTx(p) /\ UNCHANGED <<req, sites>>
    \/ \E p \in Procs : DepositInc(p) /\ UNCHANGED <<req, sites>>
    \/ \E p \in Procs : DepositPopulate(p) /\ UNCHANGED <<req, sites>>

SpecAccounts == InitAccounts /\ [][NextAccounts]_vars

\* C9: in every reachable state no two customer documents share an e-mail and no
\* two share an account number, whatever the interleaving of registrations, admin
\* creations, admin updates and deposits (with their creation of the system
\* account).
C9_UniqueEmailAndAccountNumber ==
    \A i \in DOMAIN customers, j \in DOMAIN customers :
        i # j => /\ customers[i].email # customers[j].email
                 /\ customers[i].accountNumber # customers[j].accountNumber

\* C9's case: two creations raced to the same key and the store refused the
\* second write, with the system account and a created customer in the store.
C9_Witness ==
    /\ resp.op = "createCustomer" /\ resp.status = 500
    /\ resp.error = "E11000 duplicate key error"
    /\ \E i \in DOMAIN customers : customers[i].email = SystemEmail
    /\ \E i \in DOMAIN customers : customers[i].email = "n@x"

----------------------------------------------------------------------------
(* Tokens: login and registration issue them, the clock advances, and the      *)
(* token-protected endpoints verify them                                       *)

MaxNow == 8         \* days the clock runs
MaxTokens == 1      \* tokens issued by login in one behaviour

\* POST /api/customer/auth/login
Login(email, password) ==
    /\ Cardinality(tokens) < MaxTokens
    /\ UNCHANGED <<customers, transactions, nextId, now, jwtEnv, procs>>
    /\ IF email = Absent \/ password = Absent
       THEN Reply("login", 400, "Email and password are required") /\ UNCHANGED tokens
       ELSE LET customer == FindOneByEmail(customers, email)
            IN IF customer = NoId
               THEN Reply("login", 401, "Invalid email or password") /\ UNCHANGED tokens
               ELSE IF ~BcryptCompare(password, customers[customer].password)
               THEN Reply("login", 401, "Invalid email or password") /\ UNCHANGED tokens
               ELSE /\ tokens' = tokens \cup {JwtSign(customer, customers[customer].email,
                                                      customers[customer].accountNumber,
                                                      JwtSecret, now)}
                    /\ resp' = Response("login", 200, "", customer)

\* A day passes.
Tick ==
    /\ now < MaxNow
    /\ now' = now + 1
    /\ UNCHANGED <<customers, transactions, nextId, tokens, jwtEnv, procs, resp>>

\* GET /api/customer/profile
Profile(token) ==
    /\ UNCHANGED <<customers, transactions, nextId, now, tokens, jwtEnv, procs>>
    /\ IF token = NoToken
       THEN Reply("profile", 401, "No token provided")
       ELSE IF ~JwtVerify(token, JwtSecret)
       THEN Reply("profile", 401, "Invalid or expired token")
       ELSE IF FindById(customers, token.customerId) = NoId
       THEN Reply("profile", 404, "Customer not found")
       ELSE resp' = Response("profile", 200, "", FindById(customers, token.customerId))

\* authenticateRequest(request): the payload, or null
AuthenticateRequest(token) == token # NoToken /\ JwtVerify(token, JwtSecret)

\* GET /api/customer/auth/verify
AuthVerify(token) ==
    /\ UNCHANGED <<customers, transactions, nextId, now, tokens, jwtEnv, procs>>
    /\ IF ~AuthenticateRequest(token)
       THEN Reply("verify", 401, "Invalid or missing token")
       ELSE IF FindById(customers, token.customerId) = NoId
       THEN Reply("verify", 404, "Customer not found")
       ELSE resp' = Response("verify", 200, "Token is valid", token.customerId)

InitAuth ==
    /\ customers = (1 :> CustomerDoc("a@x", AcctNo(1), 1100000, "pw1", Pin1234))
    /\ transactions = <<>>
    /\ nextId = 2
    /\ now = 0
    /\ tokens = {}
    /\ jwtEnv \in BOOLEAN
    /\ procs = [p \in Procs |-> IdleProc]
    /\ req = <<>>
    /\ sites = <<>>
    /\ resp = NoResponse

\* What a client may put in the Authorization header: nothing, a token it was
\* issued, or a token with the payload of an issued one under a key of its own.
PresentedTokens ==
    tokens \cup {NoToken, ForgedToken} \cup {[t EXCEPT !.key = "other"] : t \in tokens}

\* A well-formed local transfer request carrying `token`.
TransferWith(token) == [LocalRequest EXCEPT !.authorization = token]

LoginEmails == {Absent, "A@x", "n@x"}
LoginPasswords == {"pw1", "pw9"}

NextAuth ==
    \/ \E email \in LoginEmails, password \in LoginPasswords :
          Login(email, password) /\ UNCHANGED <<req, sites>>
    \/ RegisterBegin(1, "Ann", "a@x", "pw9", Pin1234) /\ UNCHANGED <<req, sites>>
    \/ GenerateUniqueAccountNumber(1, AcctNo(nextId)) /\ UNCHANGED <<req, sites>>
    \/ RegisterSave(1) /\ UNCHANGED <<req, sites>>
    \/ AdminUpdateCustomer(TRUE, 1, "Ann", "Lee", "c@x", <<1100000>>, Absent, NoText)
          /\ UNCHANGED <<req, sites>>
    \/ Tick /\ UNCHANGED <<req, sites>>
    \/ \E token \in PresentedTokens : Profile(token) /\ UNCHANGED <<req, sites>>
    \/ \E token \in PresentedTokens : AuthVerify(token) /\ UNCHANGED <<req, sites>>
    \/ \E token \in PresentedTokens : CustomerTransfer(TransferWith(token)) /\ UNCHANGED <<req, sites>>

SpecAuth == InitAuth /\ [][NextAuth]_vars

\* The token was signed with the key login and registration sign with.
SignedByServer(token) == token.key = JwtSecret

\* Fewer than 7 days have passed since the token was issued.
Unexpired(token) == now < token.iat + TokenLifetime

\* C10: on the token-protected endpoints (profile, auth/verify, transfer) a token
\* is accepted only if login or registration issued it under the server's key and
\* fewer than 7 days ago; a token under another key or an expired one is answered
\* 401; an accepted token resolves to the customer it was issued for, and login
\* issues a token for the customer whose e-mail and password it was given.
C10_TokenAcceptance ==
    [][/\ \A token \in PresentedTokens :
             /\ (resp'.op = "profile" /\ Profile(token))
                => /\ resp'.status # 401
                         => SignedByServer(token) /\ Unexpired(token) /\ token \in tokens
                   /\ (~SignedByServer(token) \/ ~Unexpired(token)) => resp'.status = 401
                   /\ resp'.status = 200 => resp'.data = token.customerId
             /\ (resp'.op = "verify" /\ AuthVerify(token))
                => /\ resp'.status # 401
                         => SignedByServer(token) /\ Unexpired(token) /\ token \in tokens
                   /\ (~SignedByServer(token) \/ ~Unexpired(token)) => resp'.status = 401
                   /\ resp'.status = 200 => resp'.data = token.customerId
             /\ (resp'.op = "transfer" /\ CustomerTransfer(TransferWith(token)))
                => /\ resp'.status # 401
                         => SignedByServer(token) /\ Unexpired(token) /\ token \in tokens
                   /\ (~SignedByServer(token) \/ ~Unexpired(token)) => resp'.status = 401
       /\ \A email \in LoginEmails, password \in LoginPasswords :
             (resp'.op = "login" /\ resp'.status = 200 /\ Login(email, password))
             => \A t \in tokens' \ tokens :
                   /\ t.customerId \in DOMAIN customers
                   /\ customers[t.customerId].email = Lower(email)
                   /\ BcryptCompare(password, customers[t.customerId].password)
                   /\ t.customerId = resp'.data
                   /\ SignedByServer(t) /\ t.iat = now /\ t.exp = now + TokenLifetime
       /\ RegisterSave(1)
             => \A t \in tokens' \ tokens :
                   /\ t.customerId = nextId /\ t.customerId \in DOMAIN customers'
                   /\ SignedByServer(t) /\ t.iat = now /\ t.exp = now + TokenLifetime]_vars

\* C10's case: after day 7 the profile endpoint accepted the token of the customer
\* who registered, while a token issued on day 0 had expired.
C10_Witness ==
    /\ resp.op = "profile" /\ resp.status = 200 /\ resp.data = 2
    /\ now >= TokenLifetime
    /\ \E t \in tokens : t.iat = 0

----------------------------------------------------------------------------
(* JavaScript numbers: IEEE 754 binary64.  A natural number is the sequence of *)
(* its bits, least significant first, the last one being 1; a double is        *)
(* (-1)^neg * m * 2^e with m odd and of at most 53 bits, or zero.  Exponents   *)
(* stay far from the subnormal and overflow ranges for the amounts used here.  *)

Precision == 53

Min(a, b) == IF a <= b THEN a ELSE b
Max(a, b) == IF a >= b THEN a ELSE b

Bit(a, i) == IF i <= Len(a) THEN a[i] ELSE 0

RECURSIVE Trim(_)
Trim(a) == IF a = <<>> THEN <<>>
           ELSE IF a[Len(a)] = 1 THEN a
           ELSE Trim(SubSeq(a, 1, Len(a) - 1))

RECURSIVE IntBits(_)
IntBits(n) == IF n = 0 THEN <<>> ELSE <<n % 2>> \o IntBits(n \div 2)

ShiftLeft(a, k) == IF a = <<>> THEN <<>> ELSE [i \in 1..k |-> 0] \o a

NatAdd(a, b) ==
    LET n == Max(Len(a), Len(b)) + 1
        carry[i \in 0..n] ==
            IF i = 0 THEN 0 ELSE (Bit(a, i) + Bit(b, i) + carry[i - 1]) \div 2
    IN Trim([i \in 1..n |-> (Bit(a, i) + Bit(b, i) + carry[i - 1]) % 2])

\* a - b for a >= b
NatSub(a, b) ==
    LET n == Len(a)
        borrow[i \in 0..n] ==
            IF i = 0 THEN 0
            ELSE IF Bit(a, i) - Bit(b, i) - borrow[i - 1] < 0 THEN 1 ELSE 0
    IN Trim([i \in 1..n |-> (Bit(a, i) - Bit(b, i) - borrow[i - 1] + 2) % 2])

NatLess(a, b) ==
    IF Len(a) # Len(b) THEN Len(a) < Len(b)
    ELSE \E i \in 1..Len(a) :
            a[i] < b[i] /\ \A j \in (i + 1)..Len(a) : a[j] = b[j]

Zero == [neg |-> FALSE, m |-> <<>>, e |-> 0]

\* The double (-1)^neg * m * 2^e for m of at most 53 significant bits.
MakeDouble(neg, m, e) ==
    IF m = <<>> THEN Zero
    ELSE LET k == CHOOSE k \in 0..(Len(m) - 1) :
                     m[k + 1] = 1 /\ \A j \in 1..k : m[j] = 0
         IN [neg |-> neg, m |-> SubSeq(m, k + 1, Len(m)), e |-> e + k]

\* Round to nearest, ties to even: the double nearest to (-1)^neg * m * 2^e.
RoundToDouble(neg, m, e) ==
    IF Len(m) <= Precision THEN MakeDouble(neg, m, e)
    ELSE LET k == Len(m) - Precision
             q == SubSeq(m, k + 1, Len(m))
             up == /\ m[k] = 1
                   /\ \/ \E j \in 1..(k - 1) : m[j] = 1
                      \/ q[1] = 1
         IN MakeDouble(neg, IF up THEN NatAdd(q, <<1>>) ELSE q, e + k)

\* x + y
FAdd(x, y) ==
    LET e == Min(x.e, y.e)
        a == ShiftLeft(x.m, x.e - e)
        b == ShiftLeft(y.m, y.e - e)
    IN IF x.neg = y.neg THEN RoundToDouble(x.neg, NatAdd(a, b), e)
       ELSE IF a = b THEN Zero
       ELSE IF NatLess(a, b) THEN RoundToDouble(y.neg, NatSub(b, a), e)
       ELSE RoundToDouble(x.neg, NatSub(a, b), e)

\* x - y
FSub(x, y) == FAdd(x, IF y.m = <<>> THEN y ELSE [y EXCEPT !.neg = ~y.neg])

\* x < y
FLess(x, y) == FSub(x, y).neg

\* The double with the 53-bit significand hi * 2^28 + lo and the exponent e of its
\* last bit: 0x1.999999999999Ap-4 is Double(\h1999999, \h999999A, -56).
Double(hi, lo, e) ==
    MakeDouble(FALSE, NatAdd(ShiftLeft(IntBits(hi), 28), IntBits(lo)), e)

----------------------------------------------------------------------------
(* GET /api/customer/statement *)

\* Transaction.find({ fromUserId or toUserId: customerId, createdAt in
\* [startDate, endDate] }).sort({ createdAt: 1 })
RECURSIVE FindInRange(_, _, _, _)
FindInRange(txs, customerId, startDate, endDate) ==
    IF txs = <<>> THEN <<>>
    ELSE LET t == Head(txs)
             rest == FindInRange(Tail(txs), customerId, startDate, endDate)
         IN IF /\ t.fromUserId = customerId \/ t.toUserId = customerId
               /\ startDate <= t.createdAt /\ t.createdAt <= endDate
            THEN <<t>> \o rest
            ELSE rest

\* openingBalance after the backward pass over the transactions of the period
RECURSIVE OpeningBalance(_, _, _)
OpeningBalance(openingBalance, txs, customerId) ==
    IF txs = <<>> THEN openingBalance
    ELSE LET isDebit == Head(txs).fromUserId = customerId
         IN OpeningBalance(IF isDebit
                           THEN FAdd(openingBalance, Head(txs).amount)
                           ELSE FSub(openingBalance, Head(txs).amount),
                           Tail(txs), customerId)

\* totalDebits (debits = TRUE) or totalCredits (debits = FALSE) after the forward
\* pass, starting from `total`
RECURSIVE TotalOf(_, _, _, _)
TotalOf(total, txs, customerId, debits) ==
    IF txs = <<>> THEN total
    ELSE LET isDebit == Head(txs).fromUserId = customerId
         IN TotalOf(IF isDebit = debits THEN FAdd(total, Head(txs).amount) ELSE total,
                    Tail(txs), customerId, debits)

\* transactions.map(...): the entries of the statement, each with the running
\* balance openingBalance + totalCredits - totalDebits of the totals so far
RECURSIVE FormattedTransactions(_, _, _, _, _)
FormattedTransactions(txs, customerId, openingBalance, totalCredits, totalDebits) ==
    IF txs = <<>> THEN <<>>
    ELSE LET t == Head(txs)
             isDebit == t.fromUserId = customerId
             credits == IF isDebit THEN totalCredits ELSE FAdd(totalCredits, t.amount)
             debits == IF isDebit THEN FAdd(totalDebits, t.amount) ELSE totalDebits
             runningBalance == FSub(FAdd(openingBalance, credits), debits)
         IN <<[date |-> t.createdAt, type |-> IF isDebit THEN "debit" ELSE "credit",
               amount |-> t.amount, balance |-> runningBalance]>>
            \o FormattedTransactions(Tail(txs), customerId, openingBalance,
                                     credits, debits)

Summary(balance, txs, customerId) ==
    [openingBalance |-> OpeningBalance(balance, txs, customerId),
     closingBalance |-> balance,
     totalCredits |-> TotalOf(Zero, txs, customerId, FALSE),
     totalDebits |-> TotalOf(Zero, txs, customerId, TRUE),
     transactionCount |-> Len(txs),
     transactions |-> FormattedTransactions(txs, customerId,
                                            OpeningBalance(balance, txs, customerId),
                                            Zero, Zero)]

\* .populate('fromUserId') and .populate('toUserId') put null for a reference
\* whose customer document is gone; the statement then reads
\* transaction.fromUserId._id of every transaction, and the name of
\* transaction.toUserId for a debit: a TypeError on null.
StatementThrows(cs, txs, customerId) ==
    \E i \in 1..Len(txs) :
        \/ txs[i].fromUserId \notin DOMAIN cs
        \/ txs[i].fromUserId = customerId /\ txs[i].toUserId \notin DOMAIN cs

Statement(token, startDate, endDate) ==
    /\ UNCHANGED <<customers, transactions, nextId, now, tokens, jwtEnv, procs>>
    /\ IF token = NoToken
       THEN Reply("statement", 401, "No token provided")
       ELSE IF ~JwtVerify(token, JwtSecret)
       THEN Reply("statement", 401, "Invalid or expired token")
       ELSE IF startDate > endDate
       THEN Reply("statement", 400, "Start date cannot be after end date")
       ELSE IF FindById(customers, token.customerId) = NoId
       THEN Reply("statement", 404, "Customer not found")
       ELSE IF StatementThrows(customers,
                               FindInRange(transactions, token.customerId,
                                           startDate, endDate),
                               token.customerId)
       THEN Reply("statement", 500, "Internal server error")
       ELSE resp' = Response("statement", 200, "",
                             Summary(customers[token.customerId].balance,
                                     FindInRange(transactions, token.customerId,
                                                 startDate, endDate),
                                     token.customerId))

----------------------------------------------------------------------------
(* Statements of customer 1 after a history of deposits to customer 1 and of   *)
(* peer transfers from customer 1 to customer 2, one a day                     *)

MaxStatementTx == 3     \* transactions in the history

\* 0.1, 0.3, 1 and 2.5 as parseFloat reads them
StatementAmounts ==
    {Double(\h1999999, \h999999A, -56), Double(\h1333333, \h3333333, -54),
     Double(0, 1, 0), Double(0, 5, -1)}

Histories ==
    UNION {[1..n -> [debit : BOOLEAN, amount : StatementAmounts]] :
              n \in 0..MaxStatementTx}

\* The balance of customer 1 ($inc by -amount for a debit, by amount for a credit)
\* and of customer 2 ($inc by amount for a debit of customer 1) after history h
RECURSIVE BalanceAfter(_, _, _)
BalanceAfter(balance, h, id) ==
    IF h = <<>> THEN balance
    ELSE BalanceAfter(IF id = 1
                      THEN IF Head(h).debit THEN FSub(balance, Head(h).amount)
                                            ELSE FAdd(balance, Head(h).amount)
                      ELSE IF Head(h).debit THEN FAdd(balance, Head(h).amount)
                                            ELSE balance,
                      Tail(h), id)

\* Every peer transfer of the history passed the balance check.
Covered(h) ==
    \A i \in 1..Len(h) :
        h[i].debit => ~FLess(BalanceAfter(Zero, SubSeq(h, 1, i - 1), 1), h[i].amount)

InitStatement ==
    \E h \in Histories :
        /\ Covered(h)
        /\ customers =
              (1 :> [CustomerDoc("a@x", AcctNo(1), 0, "pw1", Pin1234)
                        EXCEPT !.balance = BalanceAfter(Zero, h, 1)]
               @@ 2 :> [CustomerDoc("b@x", AcctNo(2), 0, "pw2", Pin1234)
                           EXCEPT !.balance = BalanceAfter(Zero, h, 2)]
               @@ 3 :> HalifaxBank)
        /\ transactions =
              [i \in 1..Len(h) |->
                  [fromUserId |-> IF h[i].debit THEN 1 ELSE 3,
                   toUserId |-> IF h[i].debit THEN 2 ELSE 1,
                   amount |-> h[i].amount, createdAt |-> i]]
        /\ nextId = 4
        /\ now = Len(h)
        /\ tokens = {JwtSign(1, "a@x", AcctNo(1), "env", Len(h))}
        /\ jwtEnv = TRUE
        /\ procs = <<>>
        /\ req = <<>>
        /\ sites = <<>>
        /\ resp = NoResponse

NextStatement ==
    \E token \in tokens \cup {NoToken}, startDate \in 1..MaxStatementTx,
       endDate \in 1..MaxStatementTx :
        Statement(token, startDate, endDate) /\ UNCHANGED <<req, sites>>

SpecStatement == InitStatement /\ [][NextStatement]_vars

\* C7 (as claimed): the summary of every statement satisfies
\* closingBalance = openingBalance + totalCredits - totalDebits, closingBalance
\* being the stored balance.
C7_StatementIdentity ==
    (resp.op = "statement" /\ resp.status = 200)
    => /\ resp.data.closingBalance = customers[1].balance
       /\ resp.data.closingBalance =
             FSub(FAdd(resp.data.openingBalance, resp.data.totalCredits),
                  resp.data.totalDebits)

----------------------------------------------------------------------------
(* DELETE /api/admin/customers/[id] *)

AdminDeleteCustomerCascade(session, id) ==
    /\ UNCHANGED <<nextId, now, tokens, jwtEnv, procs>>
    /\ IF ~session
       THEN Reply("deleteCustomer", 401, "Unauthorized")
            /\ UNCHANGED <<customers, transactions>>
       ELSE IF FindById(customers, id) = NoId
       THEN Reply("deleteCustomer", 404, "Customer not found")
            /\ UNCHANGED <<customers, transactions>>
       ELSE /\ customers' = [i \in DOMAIN customers \ {id} |-> customers[i]]
            /\ transactions' =
                 SelectSeq(transactions,
                           LAMBDA t : t.fromUserId # id /\ t.toUserId # id)
            /\ Reply("deleteCustomer", 200, "Customer deleted successfully")

\* Customer.findByIdAndDelete(id): the customer document goes, the transaction
\* documents that name it stay.
AdminDeleteCustomer(session, id) ==
    /\ UNCHANGED <<transactions, nextId, now, tokens, jwtEnv, procs>>
    /\ IF ~session
       THEN Reply("deleteCustomer", 401, "Unauthorized") /\ UNCHANGED customers
       ELSE IF FindById(customers, id) = NoId
       THEN Reply("deleteCustomer", 404, "Customer not found") /\ UNCHANGED customers
       ELSE /\ customers' = [i \in DOMAIN customers \ {id} |-> customers[i]]
            /\ Reply("deleteCustomer", 200, "Customer deleted successfully")

----------------------------------------------------------------------------
(* POST /api/customer/change-password and POST /api/customer/change-pin *)

\* String(newPassword).length, on the passwords of the model
StringLength(s) == CASE s = "secret" -> 6 [] s = "secret2" -> 7 [] s = "short" -> 5
                     [] s = "pw1" -> 3 [] s = "pw9" -> 3 [] OTHER -> 0

\* const minimum length of a new password: String(newPassword).length < 6
MinPasswordLength == 6

\* x === y on JSON values
StrictEqual(x, y) == x.t = y.t /\ x.v = y.v

IsSameAsOldNever(new, stored) == FALSE

\* const isSameAsOld = await bcrypt.compare(String(new...), customer....)
IsSameAsOld(new, stored) == BcryptCompare(new, stored)

ChangePassword(token, currentPassword, newPassword, confirmPassword) ==
    /\ UNCHANGED <<transactions, nextId, now, tokens, jwtEnv, procs>>
    /\ LET customer == FindById(customers, token.customerId)
       IN IF ~AuthenticateRequest(token)
          THEN Reply("changePassword", 401, "Invalid or missing token")
               /\ UNCHANGED customers
          ELSE IF \/ currentPassword = Absent \/ newPassword = Absent
                  \/ confirmPassword = Absent
          THEN Reply("changePassword", 400,
                     "Current password, new password, and confirmation are required")
               /\ UNCHANGED customers
          ELSE IF newPassword # confirmPassword
          THEN Reply("changePassword", 400, "New password and confirmation do not match")
               /\ UNCHANGED customers
          ELSE IF StringLength(newPassword) < MinPasswordLength
          THEN Reply("changePassword", 400, "New password must be at least 6 characters")
               /\ UNCHANGED customers
          ELSE IF customer = NoId
          THEN Reply("changePassword", 404, "Customer not found") /\ UNCHANGED customers
          ELSE IF ~BcryptCompare(currentPassword, customers[customer].password)
          THEN Reply("changePassword", 400, "Current password is incorrect")
               /\ UNCHANGED customers
          ELSE IF IsSameAsOld(newPassword, customers[customer].password)
          THEN Reply("changePassword", 400,
                     "New password must be different from the current password")
               /\ UNCHANGED customers
          ELSE /\ customers' =
                    [customers EXCEPT ![customer].password = BcryptHash(newPassword)]
               /\ Reply("changePassword", 200, "Password updated successfully")

\* The PINs arrive as JSON values: text, or a number the handler coerces with
\* String(...) and RegExp.prototype.test.
ChangePin(token, currentPin, newPin, confirmPin) ==
    /\ UNCHANGED <<transactions, nextId, now, tokens, jwtEnv, procs>>
    /\ LET customer == FindById(customers, token.customerId)
       IN IF ~AuthenticateRequest(token)
          THEN Reply("changePin", 401, "Invalid or missing token") /\ UNCHANGED customers
          ELSE IF ~Truthy(currentPin) \/ ~Truthy(newPin) \/ ~Truthy(confirmPin)
          THEN Reply("changePin", 400,
                     "Current PIN, new PIN, and confirmation are required")
               /\ UNCHANGED customers
          ELSE IF ~StrictEqual(newPin, confirmPin)
          THEN Reply("changePin", 400, "New PIN and confirmation PIN do not match")
               /\ UNCHANGED customers
          ELSE IF ~IsPinFormat(ToStr(newPin))
          THEN Reply("changePin", 400, "PIN must be 4-6 digits") /\ UNCHANGED customers
          ELSE IF customer = NoId
          THEN Reply("changePin", 404, "Customer not found") /\ UNCHANGED customers
          ELSE IF ~BcryptCompare(ToStr(currentPin), customers[customer].transactionPin)
          THEN Reply("changePin", 400, "Current PIN is incorrect") /\ UNCHANGED customers
          ELSE IF IsSameAsOld(ToStr(newPin), customers[customer].transactionPin)
          THEN Reply("changePin", 400, "New PIN must be different from the current PIN")
               /\ UNCHANGED customers
          ELSE /\ customers' =
                    [customers EXCEPT
                        ![customer].transactionPin = BcryptHash(ToStr(newPin))]
               /\ Reply("changePin", 200, "Transaction PIN updated successfully")

----------------------------------------------------------------------------
(* A customer's session: login, the token-protected endpoints, the changes of  *)
(* password and PIN, the clock, and the admin deleting the customer            *)

Pin5678 == <<"5", "6", "7", "8">>

InitSession ==
    /\ customers = (1 :> CustomerDoc("a@x", AcctNo(1), 0, "secret", Pin1234))
    /\ transactions = <<>>
    /\ nextId = 2
    /\ now = 0
    /\ tokens = {}
    /\ jwtEnv \in BOOLEAN
    /\ procs = [p \in Procs |-> IdleProc]
    /\ req = <<>>
    /\ sites = <<>>
    /\ resp = NoResponse

SessionPasswords == {Absent, "secret", "secret2", "short"}
SessionPins == {Undef, Txt(Pin1234), Txt(Pin5678), Num(5678), Txt(<<"1", "2">>)}

\* The tokens presented to the change endpoints: none, forged ones, and those of
\* customer 1.
ChangeTokens == {t \in PresentedTokens : t.customerId \in {NoId, 1}}

\* The bodies of the change-password requests: every current and new password
\* with the new one confirmed, and one with a confirmation that differs.
PasswordBodies ==
    {[current |-> c, new |-> n, confirm |-> n] :
        c \in SessionPasswords \ {"short"}, n \in SessionPasswords}
    \cup {[current |-> "secret", new |-> "secret2", confirm |-> "secret"]}

\* The change-password requests: an issued token with any body, any other token
\* with one body.
ChangePasswordRequests ==
    {r \in [token : ChangeTokens, body : PasswordBodies] :
        r.token \in tokens
        \/ r.body = [current |-> "secret", new |-> "secret2", confirm |-> "secret2"]}

PinBodies ==
    {[current |-> c, new |-> n, confirm |-> n] :
        c \in {Undef, Txt(Pin1234), Txt(Pin5678)}, n \in SessionPins}
    \cup {[current |-> Txt(Pin1234), new |-> Num(5678), confirm |-> Txt(Pin5678)]}

ChangePinRequests ==
    {r \in [token : ChangeTokens, body : PinBodies] :
        r.token \in tokens
        \/ r.body = [current |-> Txt(Pin1234), new |-> Txt(Pin5678),
                     confirm |-> Txt(Pin5678)]}

NextSession ==
    \/ \E password \in SessionPasswords \ {Absent} :
          Login("a@x", password) /\ UNCHANGED <<req, sites>>
    \/ now = 0 /\ RegisterBegin(1, "Ann", "n@x", "secret", Pin1234)
          /\ UNCHANGED <<req, sites>>
    \/ now = 0 /\ GenerateUniqueAccountNumber(1, AcctNo(nextId))
          /\ UNCHANGED <<req, sites>>
    \/ now = 0 /\ RegisterSave(1) /\ UNCHANGED <<req, sites>>
    \/ procs[1].pc = "idle" /\ Tick /\ UNCHANGED <<req, sites>>
    \/ \E token \in PresentedTokens : Profile(token) /\ UNCHANGED <<req, sites>>
    \/ \E token \in PresentedTokens : AuthVerify(token) /\ UNCHANGED <<req, sites>>
    \/ \E token \in PresentedTokens :
          CustomerTransfer(TransferWith(token)) /\ UNCHANGED <<req, sites>>
    \/ \E r \in ChangePasswordRequests :
          ChangePassword(r.token, r.body.current, r.body.new, r.body.confirm)
          /\ UNCHANGED <<req, sites>>
    \/ \E r \in ChangePinRequests :
          ChangePin(r.token, r.body.current, r.body.new, r.body.confirm)
          /\ UNCHANGED <<req, sites>>
    \/ AdminDeleteCustomer(TRUE, 1) /\ UNCHANGED <<req, sites>>

SpecSession == InitSession /\ [][NextSession]_vars

\* The request fails authentication: no header, a token the server's key does
\* not verify (malformed, expired), or a subject that is no customer.
AuthFailure(token) ==
    \/ token = NoToken
    \/ ~JwtVerify(token, JwtSecret)
    \/ token.customerId \notin DOMAIN customers

\* C11 (as claimed): on the profile and auth/verify endpoints every authentication
\* failure (header missing, token malformed, token expired, subject not an
\* existing customer) gets the response the missing header gets: status 401 and
\* one generic message, so that the four cases cannot be told apart.
C11_UniformAuthFailure ==
    [][\A token \in PresentedTokens :
          /\ (resp'.op = "profile" /\ AuthFailure(token) /\ Profile(token))
             => resp' = Response("profile", 401, "No token provided", NoId)
          /\ (resp'.op = "verify" /\ AuthFailure(token) /\ AuthVerify(token))
             => resp' = Response("verify", 401, "Invalid or missing token", NoId)]_vars


\* The secrets of one customer: login (on day 0), the two changes, the clock, and
\* the admin deleting the customer.
NextSecrets ==
    \/ \E password \in SessionPasswords \ {Absent} :
          now = 0 /\ Login("a@x", password) /\ UNCHANGED <<req, sites>>
    \/ Tick /\ UNCHANGED <<req, sites>>
    \/ \E r \in ChangePasswordRequests :
          ChangePassword(r.token, r.body.current, r.body.new, r.body.confirm)
          /\ UNCHANGED <<req, sites>>
    \/ \E r \in ChangePinRequests :
          ChangePin(r.token, r.body.current, r.body.new, r.body.confirm)
          /\ UNCHANGED <<req, sites>>
    \/ AdminDeleteCustomer(TRUE, 1) /\ UNCHANGED <<req, sites>>

SpecSecrets == InitSession /\ [][NextSecrets]_vars

\* Everything but the password of customer id is as it was.
OnlyPasswordChanged(id) ==
    customers' = [customers EXCEPT ![id].password = customers'[id].password]

\* Everything but the transaction PIN of customer id is as it was.
OnlyPinChanged(id) ==
    customers' = [customers EXCEPT ![id].transactionPin = customers'[id].transactionPin]

\* C14: a change of password (of PIN) replaces the stored secret exactly when the
\* token is accepted and its customer exists, the current secret given is the
\* stored one, the new secret equals its confirmation, has at least 6 characters
\* (is 4-6 digits) and differs from the current one; then the answer is 200, the
\* new secret verifies and the old one no longer does, and nothing else changes.
\* In every other case the answer is 400, 401 or 404 and no customer document
\* changes.
C14_SecretChange ==
    [][/\ resp'.op = "changePassword" =>
          \A r \in ChangePasswordRequests :
             ChangePassword(r.token, r.body.current, r.body.new, r.body.confirm)
             => LET id == r.token.customerId
                IN IF /\ ~AuthFailure(r.token)
                      /\ BcryptCompare(r.body.current, customers[id].password)
                      /\ r.body.new = r.body.confirm
                      /\ StringLength(r.body.new) >= MinPasswordLength
                      /\ r.body.new # r.body.current
                   THEN /\ resp'.status = 200
                        /\ BcryptCompare(r.body.new, customers'[id].password)
                        /\ ~BcryptCompare(r.body.current, customers'[id].password)
                        /\ OnlyPasswordChanged(id)
                   ELSE /\ resp'.status \in {400, 401, 404}
                        /\ customers' = customers
       /\ resp'.op = "changePin" =>
          \A r \in ChangePinRequests :
             ChangePin(r.token, r.body.current, r.body.new, r.body.confirm)
             => LET id == r.token.customerId
                IN IF /\ ~AuthFailure(r.token)
                      /\ Truthy(r.body.current) /\ Truthy(r.body.new)
                      /\ BcryptCompare(ToStr(r.body.current),
                                       customers[id].transactionPin)
                      /\ StrictEqual(r.body.new, r.body.confirm)
                      /\ IsPinFormat(ToStr(r.body.new))
                      /\ ToStr(r.body.new) # ToStr(r.body.current)
                   THEN /\ resp'.status = 200
                        /\ BcryptCompare(ToStr(r.body.new), customers'[id].transactionPin)
                        /\ ~BcryptCompare(ToStr(r.body.current),
                                          customers'[id].transactionPin)
                        /\ OnlyPinChanged(id)
                   ELSE /\ resp'.status \in {400, 401, 404}
                        /\ customers' = customers]_vars

\* C14's case: the customer changed the PIN (sent as a JSON number) after having
\* changed the password.
C14_Witness ==
    /\ resp.op = "changePin" /\ resp.status = 200
    /\ 1 \in DOMAIN customers
    /\ customers[1].password = BcryptHash("secret2")
    /\ customers[1].transactionPin = BcryptHash(Pin5678)

\* The profile, auth/verify, change-password and change-pin endpoints accept the
\* token: it verifies under the key of lib/auth.ts and its customer exists.
Accepted(token) ==
    JwtVerify(token, JwtSecret) /\ token.customerId \in DOMAIN customers

\* The transfer endpoint accepts the token: it verifies under process.env.JWT_SECRET.
AcceptedByTransfer(token) == JwtVerify(token, JwtSecretOfEnv)

----------------------------------------------------------------------------
(* The read-only admin endpoints *)

\* GET /api/admin/transactions
AdminListTransactions(session) ==
    /\ UNCHANGED <<customers, transactions, nextId, now, tokens, jwtEnv, procs>>
    /\ IF ~session
       THEN Reply("listTransactions", 401, "Unauthorized")
       ELSE resp' = Response("listTransactions", 200, "", transactions)

\* GET /api/admin/customers: Customer.find().select("-password")
AdminListCustomers(session) ==
    /\ UNCHANGED <<customers, transactions, nextId, now, tokens, jwtEnv, procs>>
    /\ IF ~session
       THEN Reply("listCustomers", 401, "Unauthorized")
       ELSE resp' = Response("listCustomers", 200, "",
                             {Select(customers[i], {"password"}) : i \in DOMAIN customers})

\* GET /api/admin/customers/[id]: findById(id).select('-password -transactionPin')
AdminGetCustomer(session, id) ==
    /\ UNCHANGED <<customers, transactions, nextId, now, tokens, jwtEnv, procs>>
    /\ IF ~session
       THEN Reply("getCustomer", 401, "Unauthorized")
       ELSE IF FindById(customers, id) = NoId
       THEN Reply("getCustomer", 404, "Customer not found")
       ELSE resp' = Response("getCustomer", 200, "",
                             Select(customers[id], {"password", "transactionPin"}))

\* GET /api/admin/dashboard/stats
DashboardStats(session) ==
    /\ UNCHANGED <<customers, transactions, nextId, now, tokens, jwtEnv, procs>>
    /\ IF ~session
       THEN Reply("stats", 401, "Unauthorized")
       ELSE resp' = Response("stats", 200, "",
                             [totalCustomers |-> Cardinality(DOMAIN customers),
                              totalTransactions |-> Len(transactions)])

----------------------------------------------------------------------------
(* The site settings: GET and PUT /api/admin/settings/site, GET               *)
(* /api/customer/site.  Each handler looks the record up with Site.findOne()  *)
(* in its first step and writes in a later one.                               *)

\* The default record the GET handlers create.
DefaultSite == [phone |-> "+1-800-HALIFAX"]

AdminSiteGetBeginCreateFirst(p, session) ==
    /\ procs[p].pc = "idle"
    /\ UNCHANGED <<customers, transactions, nextId, now, tokens, jwtEnv>>
    /\ sites' = IF sites = <<>> THEN <<DefaultSite>> ELSE sites
    /\ IF ~session
       THEN Return(p, "getSite", 401, "Unauthorized")
       ELSE Return(p, "getSite", 200, "")

\* GET /api/admin/settings/site, up to Site.findOne()
AdminSiteGetBegin(p, session) ==
    /\ procs[p].pc = "idle"
    /\ UNCHANGED <<customers, transactions, nextId, now, tokens, jwtEnv, sites>>
    /\ IF ~session
       THEN Return(p, "getSite", 401, "Unauthorized")
       ELSE IF sites # <<>>
       THEN Return(p, "getSite", 200, "")
       ELSE Goto(p, [IdleProc EXCEPT !.pc = "siteSave", !.op = "getSite",
                                     !.phone = DefaultSite.phone])

\* PUT /api/admin/settings/site, up to Site.findOne()
AdminSitePutBegin(p, session, phone) ==
    /\ procs[p].pc = "idle"
    /\ UNCHANGED <<customers, transactions, nextId, now, tokens, jwtEnv, sites>>
    /\ IF ~session
       THEN Return(p, "putSite", 401, "Unauthorized")
       ELSE IF phone = Absent
       THEN Return(p, "putSite", 400, "All fields are required")
       ELSE IF sites # <<>>
       THEN Goto(p, [IdleProc EXCEPT !.pc = "siteUpdate", !.op = "putSite",
                                     !.phone = phone])
       ELSE Goto(p, [IdleProc EXCEPT !.pc = "siteSave", !.op = "putSite",
                                     !.phone = phone])

\* GET /api/customer/site, up to Site.findOne()
CustomerSiteBegin(p, token) ==
    /\ procs[p].pc = "idle"
    /\ UNCHANGED <<customers, transactions, nextId, now, tokens, jwtEnv, sites>>
    /\ IF token = NoToken
       THEN Return(p, "customerSite", 401, "Authorization token required")
       ELSE IF ~JwtVerify(token, JwtSecret)
       THEN Return(p, "customerSite", 401, "Invalid or expired token")
       ELSE IF sites # <<>>
       THEN Return(p, "customerSite", 200, "")
       ELSE Goto(p, [IdleProc EXCEPT !.pc = "siteSave", !.op = "customerSite",
                                     !.phone = DefaultSite.phone])

\* site.save() / Site.create(defaultSite) of a new record, and the response
SiteSave(p) ==
    /\ procs[p].pc = "siteSave"
    /\ UNCHANGED <<customers, transactions, nextId, now, tokens, jwtEnv>>
    /\ sites' = Append(sites, [phone |-> procs[p].phone])
    /\ Return(p, procs[p].op, 200, "")

\* site.save() of the record Site.findOne() returned (the first one), and the
\* response
SiteUpdate(p) ==
    /\ procs[p].pc = "siteUpdate"
    /\ UNCHANGED <<customers, transactions, nextId, now, tokens, jwtEnv>>
    /\ sites' = [sites EXCEPT ![1].phone = procs[p].phone]
    /\ Return(p, "putSite", 200, "Site settings updated successfully")

----------------------------------------------------------------------------
(* The site settings read and written concurrently *)

InitSite ==
    /\ customers = (1 :> CustomerDoc("a@x", AcctNo(1), 0, "pw1", Pin1234))
    /\ transactions = <<>>
    /\ nextId = 2
    /\ now = 0
    /\ tokens = {TokenOf1("env", 0)}
    /\ jwtEnv = TRUE
    /\ procs = [p \in Procs |-> IdleProc]
    /\ req = <<>>
    /\ sites = <<>>
    /\ resp = NoResponse

SitePhones == {Absent, "555", "777"}

NextSite ==
    \/ \E p \in Procs, session \in BOOLEAN : AdminSiteGetBegin(p, session) /\ UNCHANGED req
    \/ \E p \in Procs, session \in BOOLEAN, phone \in SitePhones :
          AdminSitePutBegin(p, session, phone) /\ UNCHANGED req
    \/ \E p \in Procs, token \in tokens \cup {NoToken, ForgedToken} :
          CustomerSiteBegin(p, token) /\ UNCHANGED req
    \/ \E p \in Procs : SiteSave(p) /\ UNCHANGED req
    \/ \E p \in Procs : SiteUpdate(p) /\ UNCHANGED req

SpecSite == InitSite /\ [][NextSite]_vars

\* C16 (as claimed): in every reachable state at most one site-settings record
\* exists, under any interleaving of the admin GET, the customer GET and the admin
\* PUT, also when several of them run while no record exists yet.
C16_SingleSiteRecord == Len(sites) <= 1

----------------------------------------------------------------------------
(* The admin portal: every admin endpoint, called with and without a session  *)

InitAdmin ==
    /\ customers = (1 :> CustomerDoc("a@x", AcctNo(1), 2, "pw1", Pin1234)
                    @@ 2 :> CustomerDoc("b@x", AcctNo(2), 0, "pw2", Pin1234))
    /\ transactions = <<>>
    /\ nextId = 3
    /\ now = 0
    /\ tokens = {}
    /\ jwtEnv = TRUE
    /\ procs = [p \in Procs |-> IdleProc]
    /\ req = <<>>
    /\ sites = <<>>
    /\ resp = NoResponse

AdminAmounts == {0, 1}
AdminIds == {1, 2}
AdminPasswords == {Absent, "pw7"}
AdminPhones == {Absent, "555"}

NextAdmin ==
    \/ \E session \in BOOLEAN, amount \in AdminAmounts :
          Deposit(session, AcctNo(1), amount) /\ UNCHANGED <<req, sites>>
    \/ \E session \in BOOLEAN, toUserId \in AdminIds :
          PeerTransfer(session, 1, toUserId, 1) /\ UNCHANGED <<req, sites>>
    \/ \E session \in BOOLEAN : AdminListTransactions(session) /\ UNCHANGED <<req, sites>>
    \/ \E session \in BOOLEAN : AdminListCustomers(session) /\ UNCHANGED <<req, sites>>
    \/ \E session \in BOOLEAN :
          CreateBegin(1, session, "n@x", 0, "pw8", Pin1234) /\ UNCHANGED <<req, sites>>
    \/ GenerateUniqueAccountNumber(1, AcctNo(nextId)) /\ UNCHANGED <<req, sites>>
    \/ CreateSave(1) /\ UNCHANGED <<req, sites>>
    \/ \E session \in BOOLEAN, id \in AdminIds :
          AdminGetCustomer(session, id) /\ UNCHANGED <<req, sites>>
    \/ \E session \in BOOLEAN, password \in AdminPasswords :
          AdminUpdateCustomer(session, 1, "Ann", "Lee", "c@x", <<>>, password, NoText)
          /\ UNCHANGED <<req, sites>>
    \/ \E session \in BOOLEAN : AdminDeleteCustomer(session, 2) /\ UNCHANGED <<req, sites>>
    \/ \E session \in BOOLEAN : DashboardStats(session) /\ UNCHANGED <<req, sites>>
    \/ \E session \in BOOLEAN : AdminSiteGetBegin(1, session) /\ UNCHANGED req
    \/ \E session \in BOOLEAN, phone \in AdminPhones :
          AdminSitePutBegin(1, session, phone) /\ UNCHANGED req
    \/ SiteSave(1) /\ UNCHANGED req
    \/ SiteUpdate(1) /\ UNCHANGED req

SpecAdmin == InitAdmin /\ [][NextAdmin]_vars

\* The handler answered 401 and wrote nothing.
Rejected401 ==
    /\ resp'.status = 401
    /\ customers' = customers /\ transactions' = transactions /\ sites' = sites

\* C12: every admin endpoint (deposit, transactions list, peer transfer, customer
\* list / create / get / update / delete, dashboard stats, site settings GET / PUT)
\* called without a session answers 401 and leaves customers, transactions and site
\* settings as they were: no system account and no site record is created.
C12_NoSessionNoEffect ==
    [][/\ \A amount \in AdminAmounts :
             (resp'.op = "deposit" /\ Deposit(FALSE, AcctNo(1), amount)) => Rejected401
       /\ \A toUserId \in AdminIds :
             (resp'.op = "peerTransfer" /\ PeerTransfer(FALSE, 1, toUserId, 1))
             => Rejected401
       /\ (resp'.op = "listTransactions" /\ AdminListTransactions(FALSE)) => Rejected401
       /\ (resp'.op = "listCustomers" /\ AdminListCustomers(FALSE)) => Rejected401
       /\ (resp'.op = "createCustomer" /\ CreateBegin(1, FALSE, "n@x", 0, "pw8", Pin1234))
          => Rejected401
       /\ \A id \in AdminIds :
             (resp'.op = "getCustomer" /\ AdminGetCustomer(FALSE, id)) => Rejected401
       /\ \A password \in AdminPasswords :
             (/\ resp'.op = "updateCustomer"
              /\ AdminUpdateCustomer(FALSE, 1, "Ann", "Lee", "c@x", <<>>, password, NoText))
             => Rejected401
       /\ (resp'.op = "deleteCustomer" /\ AdminDeleteCustomer(FALSE, 2)) => Rejected401
       /\ (resp'.op = "stats" /\ DashboardStats(FALSE)) => Rejected401
       /\ (resp'.op = "getSite" /\ AdminSiteGetBegin(1, FALSE)) => Rejected401
       /\ \A phone \in AdminPhones :
             (resp'.op = "putSite" /\ AdminSitePutBegin(1, FALSE, phone))
             => Rejected401]_vars

\* C12's case: the site settings were asked for without a session while neither a
\* site record nor the system account existed, after other requests had been
\* served; the answer was 401 and neither was created.
C12_Witness ==
    /\ resp.op = "getSite" /\ resp.status = 401
    /\ sites = <<>>
    /\ FindOneByEmail(customers, SystemEmail) = NoId
    /\ 2 \notin DOMAIN customers

\* C13 (as claimed): no response of the admin customer endpoints (list, create,
\* get one, update, delete) carries a customer's password hash or transaction-PIN
\* hash.
C13_NoHashInResponse ==
    /\ (resp.op = "listCustomers" /\ resp.status = 200)
       => \A c \in resp.data : {"password", "transactionPin"} \cap DOMAIN c = {}
    /\ (resp.op \in {"createCustomer", "getCustomer", "updateCustomer"}
        /\ resp.status = 200)
       => {"password", "transactionPin"} \cap DOMAIN resp.data = {}
    /\ resp.op = "deleteCustomer" => resp.data = NoId

\* C15: a transaction record, once created, is never changed and never removed:
\* every step keeps each record at its place, with its source, destination and
\* amount, whatever the operation (deposit, peer transfer, customer creation,
\* update and deletion, the listings, the site settings).
C15_TransactionsImmutable ==
    [][/\ Len(transactions') >= Len(transactions)
       /\ \A i \in 1..Len(transactions) : transactions'[i] = transactions[i]]_vars

\* C15's case: the customer a transaction names was deleted after the transaction
\* was recorded, and the record is still there.
C15_Witness ==
    /\ resp.op = "deleteCustomer" /\ resp.status = 200
    /\ \E i \in 1..Len(transactions) :
          /\ transactions[i].toUserId = 2
          /\ 2 \notin DOMAIN customers
----------------------------------------------------------------------------
(* Conservation of money across deposits and peer transfers *)

\* { $group: { _id: null, totalBalance: { $sum: "$balance" } } }
RECURSIVE SumBalances(_, _)
SumBalances(cs, ids) ==
    IF ids = {} THEN 0
    ELSE LET id == CHOOSE i \in ids : TRUE
         IN cs[id].balance + SumBalances(cs, ids \ {id})

TotalBalance(cs) == SumBalances(cs, DOMAIN cs)

\* C18 (as claimed): every committed balance movement takes from its source what
\* it gives to its destination: a deposit of A lowers the system account's balance
\* by A, a peer transfer of A lowers the source's balance by A, and the sum of all
\* balances, the system account's included, is the same before and after.  (Stated
\* for deposits made when the system account already exists, and for peer
\* transfers between two different accounts.)
C18_MovementsConserveMoney ==
    [][/\ resp'.op = "deposit" /\ resp'.status = 201
          => \A accountNumber \in LedgerAccounts, amount \in LedgerAmounts :
                LET halifaxBank == FindOneByEmail(customers, SystemEmail)
                IN (halifaxBank # NoId /\ Deposit(TRUE, accountNumber, amount))
                   => /\ customers'[halifaxBank].balance
                            = customers[halifaxBank].balance - amount
                      /\ TotalBalance(customers') = TotalBalance(customers)
       /\ resp'.op = "peerTransfer" /\ resp'.status = 201
          => \A x \in LedgerIds, y \in LedgerIds, amount \in LedgerAmounts :
                (x # y /\ PeerTransfer(TRUE, x, y, amount))
                => /\ customers'[x].balance = customers[x].balance - amount
                   /\ TotalBalance(customers') = TotalBalance(customers)]_vars

----------------------------------------------------------------------------
(* POST /api/admin/transactions (peer transfer), one step per awaited store   *)
(* operation                                                                  *)

\* Up to Customer.findById(fromUserId): the handler keeps the document it read.
TransferBegin(p, session, fromUserId, toUserId, amount) ==
    /\ procs[p].pc = "idle"
    /\ Len(transactions) < MaxTx
    /\ UNCHANGED <<customers, transactions, nextId, now, tokens, jwtEnv>>
    /\ IF ~session
       THEN Return(p, "peerTransfer", 401, "Unauthorized")
       ELSE IF fromUserId = NoId \/ toUserId = NoId \/ amount = 0
       THEN Return(p, "peerTransfer", 400, "From user, to user, and amount are required")
       ELSE LET fromUser == FindById(customers, fromUserId)
            IN Goto(p, [IdleProc EXCEPT
                           !.pc = "findTo", !.op = "peerTransfer", !.amount = amount,
                           !.from = fromUser, !.id = toUserId,
                           !.balance = IF fromUser = NoId THEN 0
                                       ELSE customers[fromUser].balance])

\* Customer.findById(toUserId)
TransferFindTo(p) ==
    /\ procs[p].pc = "findTo"
    /\ UNCHANGED <<customers, transactions, nextId, now, tokens, jwtEnv>>
    /\ Goto(p, [procs[p] EXCEPT !.pc = "transferSaveTx",
                                !.id = FindById(customers, procs[p].id)])

\* The existence check, the balance check against the document read at the
\* start, and transaction.save()
TransferSaveTx(p) ==
    /\ procs[p].pc = "transferSaveTx"
    /\ UNCHANGED <<customers, nextId, now, tokens, jwtEnv>>
    /\ IF procs[p].from = NoId \/ procs[p].id = NoId
       THEN Return(p, "peerTransfer", 404, "One or both users not found")
            /\ UNCHANGED transactions
       ELSE IF InsufficientBalance(procs[p].balance, procs[p].amount)
       THEN Return(p, "peerTransfer", 400, "Insufficient balance")
            /\ UNCHANGED transactions
       ELSE /\ transactions' =
                 Append(transactions,
                        NewTransaction(procs[p].from, procs[p].id, procs[p].amount))
            /\ Goto(p, [procs[p] EXCEPT !.pc = "debit"])

\* Customer.findByIdAndUpdate(fromUserId, { $inc: { balance: -amount } })
TransferDebit(p) ==
    /\ procs[p].pc = "debit"
    /\ UNCHANGED <<transactions, nextId, now, tokens, jwtEnv>>
    /\ customers' = IncBalance(customers, procs[p].from, -procs[p].amount)
    /\ Goto(p, [procs[p] EXCEPT !.pc = "credit"])

\* Customer.findByIdAndUpdate(toUserId, { $inc: { balance: amount } })
TransferCredit(p) ==
    /\ procs[p].pc = "credit"
    /\ UNCHANGED <<transactions, nextId, now, tokens, jwtEnv>>
    /\ customers' = IncBalance(customers, procs[p].id, procs[p].amount)
    /\ Goto(p, [procs[p] EXCEPT !.pc = "transferPopulate"])

\* transaction.populate('fromUserId'), transaction.populate('toUserId') and the
\* response: reading _id of a reference populated as null throws, and the catch
\* answers 500
TransferPopulate(p) ==
    /\ procs[p].pc = "transferPopulate"
    /\ UNCHANGED <<customers, transactions, nextId, now, tokens, jwtEnv>>
    /\ IF FindById(customers, procs[p].from) = NoId \/ FindById(customers, procs[p].id) = NoId
       THEN Return(p, "peerTransfer", 500, "Internal server error")
       ELSE Return(p, "peerTransfer", 201, "")

\* An awaited store operation of a deposit or peer transfer in flight throws (the
\* connection is lost, the operation times out): the catch answers 500.
StoreFails(p) ==
    /\ procs[p].op \in {"deposit", "peerTransfer"}
    /\ UNCHANGED <<customers, transactions, nextId, now, tokens, jwtEnv>>
    /\ Return(p, procs[p].op, 500, "Internal server error")

----------------------------------------------------------------------------
(* Deposits and peer transfers running concurrently *)

MoneyCustomers ==
    1 :> CustomerDoc("a@x", AcctNo(1), 2, "pw1", Pin1234)
    @@ 2 :> CustomerDoc("b@x", AcctNo(2), 0, "pw2", Pin1234)

InitMoney ==
    /\ customers = MoneyCustomers
    /\ transactions = <<>>
    /\ nextId = 3
    /\ now = 0
    /\ tokens = {}
    /\ jwtEnv = TRUE
    /\ procs = [p \in Procs |-> IdleProc]
    /\ req = [overlapped |-> {}, raced |-> {}]
    /\ sites = <<>>
    /\ resp = NoResponse

InFlight(p) == procs[p].pc # "idle"

\* Process p has recorded a movement to account x and not yet applied its $inc.
CreditPending(p, x) ==
    /\ procs[p].pc \in {"inc", "debit", "credit"}
    /\ procs[p].id = x

\* Process p has recorded a movement from account x and not yet applied its $inc.
DebitPending(p, x) == procs[p].pc = "debit" /\ procs[p].from = x

\* What the step shows about concurrency: the processes whose handler (the one in
\* flight, or else the last one) ran while another handler was in flight, and the
\* accounts on which two recorded credits were pending at the same time.
Observe ==
    LET began == {p \in Procs : ~InFlight(p) /\ InFlight(p)'}
        flying == {p \in Procs : InFlight(p)'}
    IN req' = [overlapped |->
                  IF began = {} THEN req.overlapped
                  ELSE IF Cardinality(flying) > 1 THEN req.overlapped \cup flying
                  ELSE req.overlapped \ began,
               raced |->
                  req.raced \cup
                  {x \in DOMAIN customers :
                      \A p \in Procs : CreditPending(p, x)'}]

\* Account 1 sends, account 2 receives: deposits go to account 2, peer transfers
\* from account 1 to account 2.
MoneyAmounts == 0..MaxAmount

NextMoney ==
    \/ \E p \in Procs, session \in BOOLEAN, accountNumber \in {NoText, AcctNo(2)} :
          DepositBegin(p, session, accountNumber, 1) /\ Observe /\ UNCHANGED sites
    \/ \E p \in Procs : DepositFindSystem(p) /\ Observe /\ UNCHANGED sites
    \/ \E p \in Procs : DepositCreateSystem(p) /\ Observe /\ UNCHANGED sites
    \/ \E p \in Procs : DepositSaveTx(p) /\ Observe /\ UNCHANGED sites
    \/ \E p \in Procs : DepositInc(p) /\ Observe /\ UNCHANGED sites
    \/ \E p \in Procs : DepositPopulate(p) /\ Observe /\ UNCHANGED sites
    \/ \E p \in Procs, session \in BOOLEAN, toUserId \in {NoId, 2}, amount \in MoneyAmounts :
          TransferBegin(p, session, 1, toUserId, amount) /\ Observe /\ UNCHANGED sites
    \/ \E p \in Procs : TransferFindTo(p) /\ Observe /\ UNCHANGED sites
    \/ \E p \in Procs : TransferSaveTx(p) /\ Observe /\ UNCHANGED sites
    \/ \E p \in Procs : TransferDebit(p) /\ Observe /\ UNCHANGED sites
    \/ \E p \in Procs : TransferCredit(p) /\ Observe /\ UNCHANGED sites
    \/ \E p \in Procs : TransferPopulate(p) /\ Observe /\ UNCHANGED sites

SpecMoney == InitMoney /\ [][NextMoney]_vars

\* The transaction log's account of x: what the recorded movements add to x and
\* take from it.  A deposit names the system account as its source and debits
\* nothing, so only peer transfers count as debits.
RECURSIVE Recorded(_, _)
Recorded(txs, x) ==
    IF txs = <<>> THEN 0
    ELSE LET t == Head(txs)
         IN (IF t.toUserId = x THEN t.amount ELSE 0)
            - (IF t.fromUserId = x THEN t.amount ELSE 0)
            + Recorded(Tail(txs), x)

\* The recorded movements whose $inc on x has not been applied yet.
RECURSIVE Pending(_, _)
Pending(ps, x) ==
    IF ps = {} THEN 0
    ELSE LET p == CHOOSE q \in ps : TRUE
         IN (IF CreditPending(p, x) THEN procs[p].amount ELSE 0)
            - (IF DebitPending(p, x) THEN procs[p].amount ELSE 0)
            + Pending(ps \ {p}, x)

Quiescent == \A p \in Procs : ~InFlight(p)

\* C17 (as claimed), for the interleaving it names: when two credits to the same
\* account x were recorded and pending at the same time (two deposits, or a
\* deposit and the credit of a peer transfer), one of the updates is lost: once
\* every handler has returned, x's balance differs from its initial balance plus
\* the recorded movements.
C17_Original ==
    \A x \in DOMAIN MoneyCustomers :
       (Quiescent /\ x \in req.raced)
       => customers[x].balance # MoneyCustomers[x].balance + Recorded(transactions, x)

\* C17 (amended): the balance changes of deposits and peer transfers are atomic
\* $inc updates, so no interleaving loses one: in every reachable state each
\* customer's balance is its initial balance plus the recorded movements, less
\* the recorded movements whose $inc is still pending; with every handler
\* returned, it is exactly the initial balance plus the recorded movements.
C17_NoLostUpdate ==
    \A x \in DOMAIN MoneyCustomers :
       customers[x].balance + Pending(Procs, x)
          = MoneyCustomers[x].balance + Recorded(transactions, x)

\* C17's case: two credits to account 2 raced and both handlers have returned.
C17_Witness ==
    /\ Quiescent
    /\ 2 \in req.raced
    /\ Len(transactions) >= 2
    /\ customers[2].balance > MoneyCustomers[2].balance + 1

\* C19, sequential half: a peer transfer of a positive amount that ran with no
\* other handler in flight, from its first lookup to its debit, never takes a
\* source balance that was >= 0 below zero.
C19_SequentialNeverOverdraws ==
    [][\A p \in Procs :
          (/\ procs[p].pc = "debit" /\ p \notin req.overlapped
           /\ procs[p].amount > 0
           /\ customers[procs[p].from].balance >= 0
           /\ TransferDebit(p))
          => customers'[procs[p].from].balance >= 0]_vars

\* C19, concurrent half: two peer transfers from account 1 that ran concurrently,
\* each amount within the initial balance and the two together above it, both
\* committed, and the balance of account 1 ended below zero.
C19_Witness ==
    /\ Quiescent
    /\ req.overlapped = Procs
    /\ Len(transactions) = 2
    /\ \A i \in 1..2 :
          /\ transactions[i].fromUserId = 1
          /\ transactions[i].amount \in 1..MoneyCustomers[1].balance
    /\ transactions[1].amount + transactions[2].amount > MoneyCustomers[1].balance
    /\ customers[1].balance < 0
    /\ customers[1].balance
          = MoneyCustomers[1].balance - transactions[1].amount - transactions[2].amount

----------------------------------------------------------------------------
(* Error responses *)

\* The messages the catch blocks and the failure branches of the handlers spell
\* out as literals for a 500.
GenericMessages ==
    {"Internal server error", "Failed to create customer", "Failed to update customer",
     "Failed to retrieve transaction details"}

\* C21 (as claimed): a response to a store operation that threw carries a fixed
\* generic message, never the message of the exception: every 500 has one of the
\* messages the handlers spell out.
C21_GenericErrorMessages == resp.status = 500 => resp.error \in GenericMessages

\* The messages of the rejections for an e-mail or account number already held:
\* by the handler's own lookup (registration, creation, update) and by the
\* store's unique index (registration and update name it; creation passes the
\* store's message on).
DuplicateMessages ==
    {"Customer with this email or account number already exists",
     "Customer with this email already exists", "Email already exists",
     "E11000 duplicate key error"}

\* C22 (as claimed): every rejection of a registration, an admin creation or an
\* admin update for a duplicate e-mail or account number has status 409, whether
\* the handler's lookup or the store's uniqueness constraint found the duplicate.
C22_DuplicateIs409 == resp.error \in DuplicateMessages => resp.status = 409

----------------------------------------------------------------------------
(* The entries of a statement *)

\* The transactions of customer 1 created in [startDate, endDate], by position
InRange(startDate, endDate) ==
    {i \in 1..Len(transactions) :
        /\ transactions[i].fromUserId = 1 \/ transactions[i].toUserId = 1
        /\ startDate <= transactions[i].createdAt
        /\ transactions[i].createdAt <= endDate}

\* C23 (as claimed): a statement lists exactly the customer's transactions
\* created in [start, end], in ascending creation time, as debits exactly when the
\* customer is the source; openingBalance = stored balance + in-range debits
\* - in-range credits; the running balance of entry i = openingBalance + credits
\* of entries 1..i - debits of entries 1..i; and the last entry's running balance
\* equals closingBalance.
C23_StatementEntries ==
    [][(resp'.op = "statement" /\ resp'.status = 200)
       => \A token \in tokens, startDate \in 1..MaxStatementTx,
             endDate \in 1..MaxStatementTx :
             Statement(token, startDate, endDate)
             => LET entries == resp'.data.transactions
                    n == Len(entries)
                    balance == customers[1].balance
                IN /\ {entries[k].date : k \in 1..n}
                         = {transactions[i].createdAt : i \in InRange(startDate, endDate)}
                   /\ n = Cardinality(InRange(startDate, endDate))
                   /\ \A k \in 1..n :
                         /\ k < n => entries[k].date < entries[k + 1].date
                         /\ \E i \in InRange(startDate, endDate) :
                               /\ transactions[i].createdAt = entries[k].date
                               /\ transactions[i].amount = entries[k].amount
                               /\ entries[k].type = "debit"
                                     <=> transactions[i].fromUserId = 1
                         /\ entries[k].balance =
                               FSub(FAdd(resp'.data.openingBalance,
                                         TotalOf(Zero, SubSeq(transactions,
                                                              entries[1].date,
                                                              entries[k].date),
                                                 1, FALSE)),
                                    TotalOf(Zero, SubSeq(transactions, entries[1].date,
                                                         entries[k].date),
                                            1, TRUE))
                   /\ resp'.data.openingBalance =
                         FSub(FAdd(balance, resp'.data.totalDebits),
                              resp'.data.totalCredits)
                   /\ n > 0 => entries[n].balance = resp'.data.closingBalance]_vars

----------------------------------------------------------------------------
(* Statements of customer 1 after a history of deposits and of peer transfers  *)
(* between any two of the customers 1 and 2, a transfer of 1 to itself         *)
(* included, with amounts that binary64 adds exactly                           *)

\* 1 and 2 as parseFloat reads them
PeerAmounts == {Double(0, 1, 0), Double(0, 2, 0)}

\* A movement: a deposit when fromUserId is the system account 3, else a peer
\* transfer.
PeerHistories ==
    UNION {[1..n -> [fromUserId : {1, 2, 3}, toUserId : {1, 2}, amount : PeerAmounts]] :
              n \in 0..MaxStatementTx}

\* The balances after the $inc updates of one movement: the deposit credits its
\* destination; the peer transfer debits its source, then credits its destination.
ApplyMovement(b, t) ==
    IF t.fromUserId = 3
    THEN [b EXCEPT ![t.toUserId] = FAdd(@, t.amount)]
    ELSE [[b EXCEPT ![t.fromUserId] = FSub(@, t.amount)]
             EXCEPT ![t.toUserId] = FAdd(@, t.amount)]

RECURSIVE BalancesAfter(_, _)
BalancesAfter(b, h) ==
    IF h = <<>> THEN b ELSE BalancesAfter(ApplyMovement(b, Head(h)), Tail(h))

ZeroBalances == [id \in {1, 2} |-> Zero]

\* Every peer transfer of the history passed the balance check.
PeerCovered(h) ==
    \A i \in 1..Len(h) :
        h[i].fromUserId # 3
        => ~FLess(BalancesAfter(ZeroBalances, SubSeq(h, 1, i - 1))[h[i].fromUserId],
                  h[i].amount)

InitPeerStatement ==
    \E h \in PeerHistories :
        /\ PeerCovered(h)
        /\ customers =
              (1 :> [CustomerDoc("a@x", AcctNo(1), 0, "pw1", Pin1234)
                        EXCEPT !.balance = BalancesAfter(ZeroBalances, h)[1]]
               @@ 2 :> [CustomerDoc("b@x", AcctNo(2), 0, "pw2", Pin1234)
                           EXCEPT !.balance = BalancesAfter(ZeroBalances, h)[2]]
               @@ 3 :> HalifaxBank)
        /\ transactions =
              [i \in 1..Len(h) |->
                  [fromUserId |-> h[i].fromUserId, toUserId |-> h[i].toUserId,
                   amount |-> h[i].amount, createdAt |-> i]]
        /\ nextId = 4
        /\ now = Len(h)
        /\ tokens = {JwtSign(1, "a@x", AcctNo(1), "env", Len(h))}
        /\ jwtEnv = TRUE
        /\ procs = <<>>
        /\ req = <<>>
        /\ sites = <<>>
        /\ resp = NoResponse

NextPeerStatement ==
    \E token \in tokens \cup {NoToken}, startDate \in 1..MaxStatementTx,
       endDate \in 1..MaxStatementTx :
        Statement(token, startDate, endDate) /\ UNCHANGED <<req, sites>>

SpecPeerStatement == InitPeerStatement /\ [][NextPeerStatement]_vars

MinOfSet(S) == CHOOSE i \in S : \A j \in S : i <= j

\* C24 (as claimed): when every balance change was made by a completed deposit or
\* peer transfer and the range holds every transaction of the customer created at
\* or after the start date, openingBalance is the balance the customer had
\* immediately before the first in-range transaction.
C24_OpeningBalanceIsActual ==
    [][(resp'.op = "statement" /\ resp'.status = 200)
       => \A token \in tokens, startDate \in 1..MaxStatementTx :
             (/\ Statement(token, startDate, MaxStatementTx)
              /\ InRange(startDate, MaxStatementTx) # {})
             => resp'.data.openingBalance =
                   BalancesAfter(ZeroBalances,
                                 SubSeq(transactions, 1,
                                        MinOfSet(InRange(startDate, MaxStatementTx)) - 1))[1]]_vars

----------------------------------------------------------------------------
(* Deposits and peer transfers whose later steps fail: the store throws, or an  *)
(* admin deletes a customer the handler has already looked up                   *)

InitSettle ==
    /\ customers = (MoneyCustomers @@ 3 :> HalifaxBank)
    /\ transactions = <<>>
    /\ nextId = 4
    /\ now = 0
    /\ tokens = {}
    /\ jwtEnv = TRUE
    /\ procs = [p \in Procs |-> IdleProc]
    /\ req = <<>>
    /\ sites = <<>>
    /\ resp = NoResponse

NextSettle ==
    \/ \E p \in Procs : DepositBegin(p, TRUE, AcctNo(2), 1) /\ UNCHANGED <<req, sites>>
    \/ \E p \in Procs : DepositFindSystem(p) /\ UNCHANGED <<req, sites>>
    \/ \E p \in Procs : DepositSaveTx(p) /\ UNCHANGED <<req, sites>>
    \/ \E p \in Procs : DepositInc(p) /\ UNCHANGED <<req, sites>>
    \/ \E p \in Procs : DepositPopulate(p) /\ UNCHANGED <<req, sites>>
    \/ \E p \in Procs, amount \in 1..MaxAmount :
          TransferBegin(p, TRUE, 1, 2, amount) /\ UNCHANGED <<req, sites>>
    \/ \E p \in Procs : TransferFindTo(p) /\ UNCHANGED <<req, sites>>
    \/ \E p \in Procs : TransferSaveTx(p) /\ UNCHANGED <<req, sites>>
    \/ \E p \in Procs : TransferDebit(p) /\ UNCHANGED <<req, sites>>
    \/ \E p \in Procs : TransferCredit(p) /\ UNCHANGED <<req, sites>>
    \/ \E p \in Procs : TransferPopulate(p) /\ UNCHANGED <<req, sites>>
    \/ \E p \in Procs : StoreFails(p) /\ UNCHANGED <<req, sites>>
    \/ \E id \in DOMAIN MoneyCustomers : AdminDeleteCustomer(TRUE, id) /\ UNCHANGED <<req, sites>>

SpecSettle == InitSettle /\ [][NextSettle]_vars

\* The source of the movement process p has recorded.
SourceOf(p) == IF procs[p].op = "deposit" THEN procs[p].sys ELSE procs[p].from

\* Process p returns in this step.
Returns(p) == InFlight(p) /\ ~InFlight(p)'

\* C25: deposit and peer transfer save the transaction record first and change
\* balances afterwards (peer transfer: debit, then credit), and nothing is rolled
\* back: a balance changes only by the $inc of a handler whose record is already
\* saved, a record once saved stays, a handler that returns changes no balance in
\* that step, and a handler reports success only if the customers its movement
\* names still exist when it answers (so that a store failure or a deletion after
\* an earlier step leaves that step's effects and is not answered 201).
C25_RecordFirstNoRollback ==
    [][/\ Len(transactions') >= Len(transactions)
       /\ SubSeq(transactions', 1, Len(transactions)) = transactions
       /\ Len(transactions') > Len(transactions) => customers' = customers
       /\ \A x \in DOMAIN customers \cap DOMAIN customers' :
             customers'[x] # customers[x]
             => \E p \in Procs :
                   /\ \E i \in 1..Len(transactions) :
                         /\ transactions[i].fromUserId = SourceOf(p)
                         /\ transactions[i].toUserId = procs[p].id
                         /\ transactions[i].amount = procs[p].amount
                   /\ \/ /\ procs[p].pc = "inc" /\ procs[p].id = x
                         /\ procs'[p].pc = "depositPopulate"
                         /\ customers'[x].balance = customers[x].balance + procs[p].amount
                      \/ /\ procs[p].pc = "debit" /\ procs[p].from = x
                         /\ procs'[p].pc = "credit"
                         /\ customers'[x].balance = customers[x].balance - procs[p].amount
                      \/ /\ procs[p].pc = "credit" /\ procs[p].id = x
                         /\ procs'[p].pc = "transferPopulate"
                         /\ customers'[x].balance = customers[x].balance + procs[p].amount
       /\ \A p \in Procs :
             /\ (procs'[p].pc = "credit" /\ procs[p].pc # "credit")
                => procs[p].pc = "debit"
             /\ Returns(p)
                => /\ UNCHANGED <<customers, transactions>>
                   /\ resp'.op = procs[p].op
                   /\ resp'.status = 201
                      => /\ procs[p].pc \in {"depositPopulate", "transferPopulate"}
                         /\ SourceOf(p) \in DOMAIN customers
                         /\ procs[p].id \in DOMAIN customers]_vars

\* C25's case: the record of a deposit to customer 2 without its balance change,
\* and the record of a peer transfer from customer 1 to customer 2 with the source
\* debited and the destination not credited; the last request was answered 500.
C25_Witness ==
    /\ Quiescent
    /\ resp.status = 500
    /\ Len(transactions) = 2
    /\ transactions[1].fromUserId = 3 /\ transactions[1].toUserId = 2
    /\ transactions[2].fromUserId = 1 /\ transactions[2].toUserId = 2
    /\ 1 \in DOMAIN customers
    /\ customers[1].balance = MoneyCustomers[1].balance - transactions[2].amount
    /\ 2 \in DOMAIN customers => customers[2].balance = MoneyCustomers[2].balance

----------------------------------------------------------------------------
(* Account numbers *)

\* A number of 1000000000..9999999999 in decimal
IsTenDigitNumber(a) ==
    /\ Len(a) = 10
    /\ \A k \in 1..10 : a[k] \in Digits
    /\ a[1] # "0"

\* C26 (as claimed): generateUniqueAccountNumber makes at most 10 attempts and
\* hands on a 10-digit number that no customer held at its lookup, and the account
\* number of every customer record, in every reachable state, is a 10-digit
\* number.
C26_TenDigitAccountNumbers ==
    /\ \A p \in Procs :
          /\ procs[p].attempts < MaxAttempts
          /\ procs[p].pc = "save" => IsTenDigitNumber(procs[p].accountNumber)
    /\ \A id \in DOMAIN customers : IsTenDigitNumber(customers[id].accountNumber)

----------------------------------------------------------------------------
(* The admin's edit form (CustomerDetailsPage) against deposits: the page      *)
(* fetches the customer, keeps the balance in its form, and submits the form   *)
(* with PUT /api/admin/customers/[id].  req is the form.                       *)

InitEdit ==
    /\ customers = MoneyCustomers
    /\ transactions = <<>>
    /\ nextId = 3
    /\ now = 0
    /\ tokens = {}
    /\ jwtEnv = TRUE
    /\ procs = <<>>
    /\ req = <<>>
    /\ sites = <<>>
    /\ resp = NoResponse

\* fetchCustomer: GET the customer and reset the form from the response
FetchCustomer(id) ==
    /\ AdminGetCustomer(TRUE, id)
    /\ req' = IF resp'.status = 200
              THEN [id |-> id, email |-> resp'.data.email,
                    balance |-> <<resp'.data.balance>>]
              ELSE req
    /\ UNCHANGED sites

\* The balances an admin types, or a client sends: none or unparseable (<<>>), or
\* a number
EditBalances == {<<>>, <<-1>>, <<0>>, <<1>>}

\* The admin edits the balance field of the form.
EditBalance(balance) ==
    /\ req # <<>>
    /\ req' = [req EXCEPT !.balance = balance]
    /\ UNCHANGED <<customers, transactions, nextId, now, tokens, jwtEnv, procs, resp, sites>>

\* onSubmit: PUT with the form's fields, balance: parseFloat(data.balance) || 0
OnSubmit ==
    /\ req # <<>>
    /\ AdminUpdateCustomer(TRUE, req.id, "Ann", "Lee", req.email, req.balance, Absent, NoText)
    /\ UNCHANGED <<req, sites>>

NextEdit ==
    \/ \E id \in DOMAIN MoneyCustomers : FetchCustomer(id)
    \/ \E balance \in EditBalances : EditBalance(balance)
    \/ OnSubmit
    \/ \E session \in BOOLEAN, balance \in EditBalances :
          AdminUpdateCustomer(session, 1, "Ann", "Lee", customers[1].email, balance,
                              Absent, NoText)
          /\ UNCHANGED <<req, sites>>
    \/ Deposit(TRUE, AcctNo(1), 1) /\ UNCHANGED <<req, sites>>

SpecEdit == InitEdit /\ [][NextEdit]_vars

\* C27: a PUT of a customer that succeeds stores the balance of the request, or 0
\* when the request has none or an unparseable one, whatever balance was stored,
\* and creates no transaction record; the form's submit is such a PUT with the
\* balance the form holds, so it stores the balance the page fetched (or the admin
\* typed) over any credit committed since.
C27_UpdateOverwritesBalance ==
    [][(resp'.op = "updateCustomer" /\ resp'.status = 200)
       => /\ \A id \in DOMAIN MoneyCustomers, balance \in EditBalances \cup {<<2>>, <<3>>} :
                AdminUpdateCustomer(TRUE, id, "Ann", "Lee", customers[id].email, balance,
                                    Absent, NoText)
                => /\ customers'[id].balance = IF balance = <<>> THEN 0 ELSE balance[1]
                   /\ transactions' = transactions
          /\ (OnSubmit /\ req.balance # <<>>)
             => customers'[req.id].balance = req.balance[1]]_vars

\* C27's case: the page fetched customer 1 with its initial balance, a deposit to
\* customer 1 was committed, and the submit of the unedited form put the initial
\* balance back: the stored balance lacks the recorded credit.
C27_Witness ==
    /\ resp.op = "updateCustomer" /\ resp.status = 200
    /\ req # <<>> /\ req.id = 1
    /\ req.balance = <<MoneyCustomers[1].balance>>
    /\ Len(transactions) = 1 /\ transactions[1].toUserId = 1
    /\ customers[1].balance = MoneyCustomers[1].balance

-----------------------------------------------------------------------------
\* One key for every endpoint

\* C28: the token-protected endpoints verify a token under one key, the key
\* login signs with, whether or not JWT_SECRET is set: a token the profile or
\* auth/verify endpoint accepts is not answered 401 by the transfer endpoint, and
\* a token the transfer endpoint does not answer 401 verifies under the key of
\* login.
C28_OneKeyEverywhere ==
    [][\A token \in PresentedTokens :
          /\ (resp'.op = "profile" /\ Profile(token) /\ resp'.status # 401)
             => AcceptedByTransfer(token)
          /\ (resp'.op = "verify" /\ AuthVerify(token) /\ resp'.status # 401)
             => AcceptedByTransfer(token)
          /\ (resp'.op = "transfer" /\ CustomerTransfer(TransferWith(token))
                 /\ resp'.status # 401)
             => JwtVerify(token, JwtSecret)]_vars

-----------------------------------------------------------------------------
(* GET /api/customer/transactions *)

DefaultLimit == 10      \* parseInt(searchParams.get('limit') || '10')

\* Transaction.find({ fromUserId or toUserId: customerId }).sort({ createdAt: -1 }):
\* the transactions of the customer, the latest first
RECURSIVE FindLatestFirst(_, _)
FindLatestFirst(txs, customerId) ==
    IF txs = <<>> THEN <<>>
    ELSE LET t == Head(txs)
             rest == FindLatestFirst(Tail(txs), customerId)
         IN IF t.fromUserId = customerId \/ t.toUserId = customerId
            THEN rest \o <<t>>
            ELSE rest

\* .skip(skip).limit(limit)
SkipLimit(txs, skip, limit) == SubSeq(txs, skip + 1, Min(skip + limit, Len(txs)))

\* transactions.map(...) reads transaction.fromUserId._id and
\* transaction.toUserId._id of every transaction of the page: a TypeError when
\* populate put null for the reference.
TransactionsThrow(cs, txs) ==
    \E i \in 1..Len(txs) :
        txs[i].fromUserId \notin DOMAIN cs \/ txs[i].toUserId \notin DOMAIN cs

FormatTransaction(t, customerId) ==
    [amount |-> t.amount, date |-> t.createdAt,
     type |-> IF t.fromUserId = customerId THEN "debit" ELSE "credit",
     fromUser |-> t.fromUserId, toUser |-> t.toUserId]

CustomerTransactions(token, page) ==
    /\ UNCHANGED <<customers, transactions, nextId, now, tokens, jwtEnv, procs>>
    /\ IF token = NoToken
       THEN Reply("transactions", 401, "No token provided")
       ELSE IF ~JwtVerify(token, JwtSecret)
       THEN Reply("transactions", 401, "Invalid or expired token")
       ELSE LET found == FindLatestFirst(transactions, token.customerId)
                paged == SkipLimit(found, (page - 1) * DefaultLimit, DefaultLimit)
            IN IF TransactionsThrow(customers, paged)
               THEN Reply("transactions", 500, "Internal server error")
               ELSE resp' = Response("transactions", 200, "",
                                     [transactions |->
                                         [i \in 1..Len(paged) |->
                                             FormatTransaction(paged[i],
                                                               token.customerId)],
                                      totalTransactions |-> Len(found)])

-----------------------------------------------------------------------------
(* The tokens of a deleted customer *)

\* Customers 1 and 2 with a peer transfer from 1 to 2 on record; each logs in,
\* the admin deletes either, and the tokens are presented to every endpoint.
InitClosed ==
    /\ customers = (1 :> CustomerDoc("a@x", AcctNo(1), 1100000, "secret", Pin1234)
                    @@ 2 :> CustomerDoc("b@x", AcctNo(2), 0, "secret", Pin1234))
    /\ transactions = <<[fromUserId |-> 1, toUserId |-> 2, amount |-> 1,
                         createdAt |-> 0]>>
    /\ nextId = 3
    /\ now = 0
    /\ tokens = {}
    /\ jwtEnv = TRUE
    /\ procs = [p \in Procs |-> IdleProc]
    /\ req = <<>>
    /\ sites = <<>>
    /\ resp = NoResponse

ClosedEmails == {"a@x", "b@x"}

\* The statements requested here are those of the tokens whose customer is gone;
\* the statements of existing customers are those of SpecStatement.
NextClosed ==
    \/ \E email \in ClosedEmails : Login(email, "secret") /\ UNCHANGED <<req, sites>>
    \/ \E id \in 1..2 : AdminDeleteCustomer(TRUE, id) /\ UNCHANGED <<req, sites>>
    \/ \E token \in tokens : Profile(token) /\ UNCHANGED <<req, sites>>
    \/ \E token \in tokens : AuthVerify(token) /\ UNCHANGED <<req, sites>>
    \/ \E token \in tokens : CustomerTransactions(token, 1) /\ UNCHANGED <<req, sites>>
    \/ \E token \in tokens :
          /\ FindById(customers, token.customerId) = NoId
          /\ Statement(token, 0, 0) /\ UNCHANGED <<req, sites>>
    \/ \E token \in tokens :
          CustomerTransfer(TransferWith(token)) /\ UNCHANGED <<req, sites>>
    \/ \E token \in tokens :
          ChangePassword(token, "secret", "secret2", "secret2")
          /\ UNCHANGED <<req, sites>>
    \/ \E token \in tokens :
          ChangePin(token, Txt(Pin1234), Txt(Pin5678), Txt(Pin5678))
          /\ UNCHANGED <<req, sites>>
    \/ \E token \in tokens : CustomerSiteBegin(1, token) /\ UNCHANGED req
    \/ SiteSave(1) /\ UNCHANGED req

SpecClosed == InitClosed /\ [][NextClosed]_vars

\* The response refuses: a status outside 2xx and no data.
Refuses(r) == r.status \notin 200..299 /\ r.data = NoId

\* C29: once the admin has deleted a customer, every token-protected endpoint
\* (profile, auth/verify, transactions, statement, transfer, change-password,
\* change-pin, site) refuses the customer's unexpired token: a status outside 2xx
\* and no data.
C29_DeletedCustomerRefused ==
    [][\A token \in tokens :
          token.customerId \notin DOMAIN customers
          => /\ (resp'.op = "profile" /\ Profile(token)) => Refuses(resp')
             /\ (resp'.op = "verify" /\ AuthVerify(token)) => Refuses(resp')
             /\ (resp'.op = "transactions" /\ CustomerTransactions(token, 1))
                => Refuses(resp')
             /\ (resp'.op = "statement" /\ Statement(token, 0, 0)) => Refuses(resp')
             /\ (resp'.op = "transfer" /\ CustomerTransfer(TransferWith(token)))
                => Refuses(resp')
             /\ (resp'.op = "changePassword"
                   /\ ChangePassword(token, "secret", "secret2", "secret2"))
                => Refuses(resp')
             /\ (resp'.op = "changePin"
                   /\ ChangePin(token, Txt(Pin1234), Txt(Pin5678), Txt(Pin5678)))
                => Refuses(resp')
             /\ CustomerSiteBegin(1, token)
                => /\ procs'[1].pc = "idle"
                   /\ Refuses(resp')]_vars

-----------------------------------------------------------------------------
(* The history of a customer whose counterparties are deleted *)

\* After a history of deposits and peer transfers the admin deletes customer 2 or
\* the system account, the counterparties of customer 1, while customer 1 reads
\* its statement and its transactions.
NextOrphans ==
    \/ \E id \in 2..3 : AdminDeleteCustomer(TRUE, id) /\ UNCHANGED <<req, sites>>
    \/ \E token \in tokens, endDate \in 1..MaxStatementTx :
          Statement(token, 1, endDate) /\ UNCHANGED <<req, sites>>
    \/ \E token \in tokens : CustomerTransactions(token, 1) /\ UNCHANGED <<req, sites>>

SpecOrphans == InitPeerStatement /\ [][NextOrphans]_vars

\* C30: the statement and the transactions of an existing customer holding a
\* valid token are answered 200 whatever the admin has done, the deletion of a
\* counterparty of the customer's transactions included.
C30_HistoryAlwaysServed ==
    [][\A token \in tokens :
          (token.customerId \in DOMAIN customers /\ JwtVerify(token, JwtSecret))
          => /\ resp'.op = "statement"
                => \A endDate \in 1..MaxStatementTx :
                      Statement(token, 1, endDate) => resp'.status = 200
             /\ (resp'.op = "transactions" /\ CustomerTransactions(token, 1))
                => resp'.status = 200]_vars

====
